---------------------------- MODULE Spec2Model ----------------------------
(***************************************************************************)
(* RavEngine entity/component core: ComponentStore, World::Spawn /        *)
(* World::Destroy and the per-frame task graph of World::TickECS.         *)
(***************************************************************************)
EXTENDS Integers, Sequences, FiniteSets, TLC

(***************************************************************************)
(* Universe                                                                *)
(***************************************************************************)
\* number of entity objects that exist
NumEntities == 2
\* the clock readings run from 0 to MaxNow, the intervals from 0 to MaxInterval
MaxNow == 4
MaxInterval == 2
\* number of threads that call into one object at the same time
NumThreads == 3
\* number of inputs an axis buffers at most between two TickAxes
MaxBuffered == 2
\* longest unordered_vector
MaxLen == 4
\* most samples of an audio asset
MaxSamples == 2
\* most floats asked of GetSampleRegionAndAdvance in one call
MaxCount == 2
\* number of references to the shared object a thread holds at most
MaxHolds == 2
Null == <<"null", 0>>
FirstWorld == <<"World", 1>>
SecondWorld == <<"World", 2>>
Worlds == {FirstWorld, SecondWorld}
Ents == {<<"Entity", i>> : i \in 1..NumEntities}
Stores == Worlds \cup Ents
EntityAt(i) == <<"Entity", i>>

\* every entity may carry one data component and one ChildEntityComponent
Components == {<<"data", i>> : i \in 1..NumEntities} \cup {<<"child", i>> : i \in 1..NumEntities}
\* the components entities carry in the ticked world: a script on every entity
\* and a physics body, added as PhysicsBodyComponent, on every entity
TickedComponents ==
    {<<"script", i>> : i \in 1..NumEntities} \cup {<<"body", i>> : i \in 1..NumEntities}
AllComponents == Components \cup TickedComponents
DataComponents == {c \in Components : c[1] = "data"}
\* the entity whose constructor creates the component
HomeOf(c) == EntityAt(c[2])

\* CTTI<T> of the component's concrete type
TypeOf(c) ==
    IF c[1] = "child" THEN "ChildEntityComponent"
    ELSE IF c[1] = "script" THEN "ScriptComponent"
    ELSE IF c[1] = "body" THEN "PhysicsBodyComponent"
    ELSE CASE c[2] % 3 = 1 -> "RigidBodyDynamicComponent"
           [] c[2] % 3 = 2 -> "Foo"
           [] OTHER -> "AudioRoom"

\* T::GetQueryTypes(): the alternate types a component type is also indexed under
GetQueryTypes(T) ==
    CASE T = "RigidBodyDynamicComponent" -> {"PhysicsBodyComponent", "RigidBodyDynamicComponent"}
      [] T = "AudioRoom" -> {"AudioRoom"}
      [] OTHER -> {}

\* every type identifier in use
Types ==
    {TypeOf(c) : c \in AllComponents} \cup UNION {GetQueryTypes(TypeOf(c)) : c \in AllComponents}

\* ChildEntityComponent::get(): the child links form a cycle over the entities
ChildGet(c) == EntityAt((c[2] % NumEntities) + 1)

\* PlayerActor::cameraEntity: entity 1 is a PlayerActor whose Start() spawns entity 2
CameraEntity(e) == IF e = EntityAt(1) THEN {EntityAt(2)} ELSE {}

VARIABLES
    Entities,             \* World::Entities, per world
    worldptr,             \* Entity world back-reference (GetWorld / SetWorld)
    parent,               \* ComponentStore::parent, per store
    components,           \* ComponentStore::components, per store: type -> set
    componentsRedundant,  \* ComponentStore::componentsRedundant, per store
    owner,                \* Component owner back-reference
    log,                  \* hooks and returns of the most recent call, in order
    lastHook,             \* per entity: the lifecycle hook invoked most recently
    systemManager,        \* World::systemManager: the registered always-tick systems
    physicsActive,        \* World::physicsActive
    frame,                \* where World::Tick of the first world stands
    masterTasks,          \* World::masterTasks: the tasks of the frame, in creation order
    graphs,               \* TickECS graphs: system id -> its task in masterTasks
    edges,                \* precede / succeed edges between tasks of masterTasks
    now,                  \* the reading of SystemManager::clock_t
    timedTick,            \* the registered timed systems: system, interval, last_timestamp
    inclusions,           \* the <<system, now>> of every inclusion of a timed system
    refcount,             \* SharedObject::refcount of the object the threads share
    deleted,              \* how many times "delete this" has run on that object
    threads,              \* per thread: where it stands in the call it is making
    isRendering,          \* TickECS isRendering: the world collects data for the renderer
    AxisBindings,         \* InputManager::AxisBindings: axis -> bindings, bufferedInputs
    vec,                  \* an unordered_vector: its elements, and whether memory got corrupted
    source                \* an AudioSourceComponent, its asset's numsamples, its latest reads

tickvars == <<systemManager, physicsActive, frame, masterTasks, graphs, edges>>

timevars == <<now, timedTick, inclusions>>
threadvars == <<refcount, deleted, threads>>
utilvars == <<AxisBindings, vec, source>>

vars == <<Entities, worldptr, parent, components, componentsRedundant, owner, log, lastHook,
          systemManager, physicsActive, frame, masterTasks, graphs, edges,
          now, timedTick, inclusions, refcount, deleted, threads, isRendering,
          AxisBindings, vec, source>>

(***************************************************************************)
(* Hash map helpers (phmap semantics: operator[] inserts a default bucket) *)
(***************************************************************************)
EmptyMap == [k \in {} |-> {}]
Bucket(m, t) == IF t \in DOMAIN m THEN m[t] ELSE {}
Touch(m, t) == [k \in DOMAIN m \cup {t} |-> Bucket(m, k)]
BucketInsert(m, t, S) == [k \in DOMAIN m \cup {t} |-> IF k = t THEN Bucket(m, k) \cup S ELSE m[k]]
BucketErase(m, t, S) == [k \in DOMAIN m \cup {t} |-> IF k = t THEN Bucket(m, k) \ S ELSE m[k]]

RECURSIVE SetToSeq(_)
SetToSeq(S) ==
    IF S = {} THEN << >>
    ELSE LET x == CHOOSE y \in S : TRUE IN <<x>> \o SetToSeq(S \ {x})

Event(ev, a, b) == [ev |-> ev, a |-> a, b |-> b]
Emit(st, ev, a, b) == [st EXCEPT !.log = Append(@, Event(ev, a, b))]

\* the program state as one record, threaded through the nested calls
State ==
    [Entities |-> Entities, worldptr |-> worldptr, parent |-> parent,
     components |-> components, componentsRedundant |-> componentsRedundant,
     owner |-> owner, log |-> << >>, lastHook |-> lastHook, ret |-> FALSE]

(***************************************************************************)
(* ComponentStore                                                          *)
(***************************************************************************)
\* World::OnAddComponent overrides the store's empty hook
\* (it locks the component's owner: the log has what the lock returned)
OnAddComponent(st, s, c) ==
    IF s \in Worlds
    THEN Emit(Emit(st, "OnAddComponent", s, c), "getOwner", c, st.owner[c])
    ELSE st

\* World::OnRemoveComponent overrides the store's empty hook
OnRemoveComponent(st, s, c) ==
    IF s \in Worlds THEN Emit(st, "OnRemoveComponent", s, c) ELSE st

RECURSIVE OnAddComponentEach(_, _, _)
OnAddComponentEach(st, s, cs) ==
    IF cs = << >> THEN st
    ELSE OnAddComponentEach(OnAddComponent(st, s, Head(cs)), s, Tail(cs))

RECURSIVE OnRemoveComponentEach(_, _, _)
OnRemoveComponentEach(st, s, cs) ==
    IF cs = << >> THEN st
    ELSE OnRemoveComponentEach(OnRemoveComponent(st, s, Head(cs)), s, Tail(cs))

\* every component held in some exact-type bucket of map m, bucket by bucket
RECURSIVE BucketsSeq(_, _)
BucketsSeq(m, keys) ==
    IF keys = << >> THEN << >>
    ELSE SetToSeq(m[Head(keys)]) \o BucketsSeq(m, Tail(keys))

RECURSIVE AddComponent(_, _, _)
AddComponent(st, s, c) ==
    LET T == TypeOf(c)
        alts == GetQueryTypes(T)
        red == st.componentsRedundant[s]
        s1 == [st EXCEPT !.components[s] = BucketInsert(@, T, {c}),
                         !.componentsRedundant[s] =
                             [k \in DOMAIN red \cup alts |->
                                 Bucket(red, k) \cup (IF k \in alts THEN {c} ELSE {})]]
        s2 == OnAddComponent(s1, s, c)
    IN  IF s2.parent[s] # Null THEN AddComponent(s2, s2.parent[s], c) ELSE s2

\* RemoveComponent that forgets the alternate-type index
RemoveComponentKeepsRedundant(st, s, c) ==
    OnRemoveComponent([st EXCEPT !.components[s] = BucketErase(@, TypeOf(c), {c})], s, c)

RemoveComponent(st, s, c) ==
    LET T == TypeOf(c)
        alts == GetQueryTypes(T)
        red == st.componentsRedundant[s]
        s1 == [st EXCEPT !.components[s] = BucketErase(@, T, {c}),
                         !.componentsRedundant[s] =
                             [k \in DOMAIN red \cup alts |->
                                 Bucket(red, k) \ (IF k \in alts THEN {c} ELSE {})]]
    IN  OnRemoveComponent(s1, s, c)

clear(st, s) ==
    [st EXCEPT !.components[s] = EmptyMap, !.componentsRedundant[s] = EmptyMap]

\* Merge that takes out of a bucket what it finds there already
MergeToggles(st, s, o) ==
    LET mc == st.components[s]
        oc == st.components[o]
        mr == st.componentsRedundant[s]
        or == st.componentsRedundant[o]
        s1 == [st EXCEPT !.components[s] =
                             [k \in DOMAIN mc \cup DOMAIN oc |->
                                 (Bucket(mc, k) \ Bucket(oc, k)) \cup (Bucket(oc, k) \ Bucket(mc, k))]]
        s2 == OnAddComponentEach(s1, s, BucketsSeq(oc, SetToSeq(DOMAIN oc)))
    IN  [s2 EXCEPT !.componentsRedundant[s] =
                       [k \in DOMAIN mr \cup DOMAIN or |->
                           (Bucket(mr, k) \ Bucket(or, k)) \cup (Bucket(or, k) \ Bucket(mr, k))]]

Merge(st, s, o) ==
    LET mc == st.components[s]
        oc == st.components[o]
        mr == st.componentsRedundant[s]
        or == st.componentsRedundant[o]
        s1 == [st EXCEPT !.components[s] =
                             [k \in DOMAIN mc \cup DOMAIN oc |-> Bucket(mc, k) \cup Bucket(oc, k)]]
        s2 == OnAddComponentEach(s1, s, BucketsSeq(oc, SetToSeq(DOMAIN oc)))
    IN  [s2 EXCEPT !.componentsRedundant[s] =
                       [k \in DOMAIN mr \cup DOMAIN or |-> Bucket(mr, k) \cup Bucket(or, k)]]

Unmerge(st, s, o) ==
    LET mc == st.components[s]
        oc == st.components[o]
        mr == st.componentsRedundant[s]
        or == st.componentsRedundant[o]
        s1 == [st EXCEPT !.components[s] =
                             [k \in DOMAIN mc \cup DOMAIN oc |-> Bucket(mc, k) \ Bucket(oc, k)]]
        s2 == OnRemoveComponentEach(s1, s, BucketsSeq(oc, SetToSeq(DOMAIN oc)))
    IN  [s2 EXCEPT !.componentsRedundant[s] =
                       [k \in DOMAIN mr \cup DOMAIN or |-> Bucket(mr, k) \ Bucket(or, k)]]

HasComponentOfSubclass(st, s, T) == T \in DOMAIN st.componentsRedundant[s]

HasComponentOfType(st, s, T) ==
    T \in DOMAIN st.components[s] \/ HasComponentOfSubclass(st, s, T)

\* the queries leave in ret what they may return: a set of components for the
\* GetAll queries, the candidates for *vec.begin() for the Get queries (none:
\* the query throws runtime_error)
\* GetComponentOfSubclass<T>: componentsRedundant[T] is created if missing
GetComponentOfSubclass(st, s, T) ==
    LET s1 == [st EXCEPT !.componentsRedundant[s] = Touch(@, T)]
    IN  [s1 EXCEPT !.ret = s1.componentsRedundant[s][T]]

\* GetComponent<T> without the fall-back to the alternate index
GetComponentExactOnly(st, s, T) ==
    LET s1 == [st EXCEPT !.components[s] = Touch(@, T)]
    IN  [s1 EXCEPT !.ret = s1.components[s][T]]

\* GetComponent<T>: components[T] is created if missing
GetComponent(st, s, T) ==
    LET s1 == [st EXCEPT !.components[s] = Touch(@, T)]
    IN  IF s1.components[s][T] = {} THEN GetComponentOfSubclass(s1, s, T)
        ELSE [s1 EXCEPT !.ret = s1.components[s][T]]

GetAllComponentsOfSubclassTypeIndex(st, s, type) ==
    LET s1 == [st EXCEPT !.components[s] = Touch(@, type),
                         !.componentsRedundant[s] = Touch(@, type)]
    IN  [s1 EXCEPT !.ret = s1.components[s][type] \cup s1.componentsRedundant[s][type]]

GetAllComponentsOfTypeIndex(st, s, index) ==
    LET s1 == [st EXCEPT !.components[s] = Touch(@, index)]
    IN  [s1 EXCEPT !.ret = s1.components[s][index]]

GetAllComponentsOfTypeIndexFastPath(st, s, index) ==
    LET s1 == [st EXCEPT !.components[s] = Touch(@, index)]
    IN  [s1 EXCEPT !.ret = s1.components[s][index]]

GetAllComponentsOfTypeIndexSubclassFastPath(st, s, index) ==
    LET s1 == [st EXCEPT !.componentsRedundant[s] = Touch(@, index)]
    IN  [s1 EXCEPT !.ret = s1.componentsRedundant[s][index]]

GetAllComponentsOfSubclass(st, s, T) == GetAllComponentsOfSubclassTypeIndex(st, s, T)

GetAllComponentsOfType(st, s, T) == GetAllComponentsOfTypeIndex(st, s, T)

(***************************************************************************)
(* Entity                                                                  *)
(***************************************************************************)
\* Entity::Sync: every component of the entity points back at it
Sync(st, e) ==
    LET mine == UNION {st.components[e][k] : k \in DOMAIN st.components[e]}
    IN  [st EXCEPT !.owner = [c \in AllComponents |-> IF c \in mine THEN e ELSE @[c]]]

\* Entity::AddComponent that sets the owner after the store call
EntityAddComponentOwnerLast(st, e, c) ==
    [AddComponent(st, e, c) EXCEPT !.owner[c] = e]

EntityAddComponent(st, e, c) ==
    AddComponent([st EXCEPT !.owner[c] = e], e, c)

(***************************************************************************)
(* World::Spawn / World::Destroy                                           *)
(***************************************************************************)
RECURSIVE Spawn(_, _, _)
RECURSIVE SpawnEach(_, _, _)
RECURSIVE Destroy(_, _, _)
RECURSIVE DestroyEach(_, _, _)

\* Entity::Start, with the PlayerActor override that spawns its camera entity
\* (the log has "Start" where it is entered and "Started" where it returns)
Start(st, e) ==
    LET s1 == [Emit(st, "Start", e, Null) EXCEPT !.lastHook[e] = "Start"]
    IN  Emit(SpawnEach(s1, s1.worldptr[e], SetToSeq(CameraEntity(e))), "Started", e, Null)

\* Entity::Stop
Stop(st, e) ==
    [Emit(st, "Stop", e, Null) EXCEPT !.lastHook[e] = "Stop"]

SpawnEach(st, w, es) ==
    IF es = << >> THEN st
    ELSE SpawnEach(Spawn(st, w, Head(es)), w, Tail(es))

DestroyEach(st, w, es) ==
    IF es = << >> THEN st
    ELSE DestroyEach(Destroy(st, w, Head(es)), w, Tail(es))

\* the entities named by the ChildEntityComponents of e, as
\* GetAllComponentsOfType<ChildEntityComponent>() lists them
ChildrenOf(st, e) ==
    LET cs == SetToSeq(Bucket(st.components[e], "ChildEntityComponent"))
    IN  [i \in 1..Len(cs) |-> ChildGet(cs[i])]

\* Spawn whose rejection still reports success
SpawnReturnsTrue(st, w, e) ==
    IF st.worldptr[e] = Null
    THEN LET s1 == [st EXCEPT !.Entities[w] = @ \cup {e}]
             s2 == Sync(s1, e)
             s3 == [s2 EXCEPT !.worldptr[e] = w]
             s4 == Start(s3, e)
             s5 == Merge(s4, w, e)
             s6 == [s5 EXCEPT !.parent[e] = w,
                              !.components[e] = Touch(@, "ChildEntityComponent")]
             s7 == SpawnEach(s6, w, ChildrenOf(s6, e))
         IN  [Emit(s7, "SpawnTrue", w, e) EXCEPT !.ret = TRUE]
    ELSE [Emit(st, "SpawnTrue", w, e) EXCEPT !.ret = TRUE]

\* Destroy that runs Stop() before it looks at the world back-reference
DestroyStopsFirst(st, w, e) ==
    IF st.worldptr[e] = Null
    THEN [Emit(Stop(st, e), "DestroyFalse", w, e) EXCEPT !.ret = FALSE]
    ELSE LET s1 == [st EXCEPT !.worldptr[e] = Null]
             s2 == Stop(s1, e)
             s3 == Unmerge(s2, w, e)
             s4 == [s3 EXCEPT !.parent[e] = Null,
                              !.Entities[w] = @ \ {e},
                              !.components[e] = Touch(@, "ChildEntityComponent")]
             s5 == DestroyEach(s4, w, ChildrenOf(s4, e))
         IN  [Emit(s5, "DestroyTrue", w, e) EXCEPT !.ret = TRUE]

\* Spawn that merges the entity's components even when it rejects the entity
SpawnRejectedMerges(st, w, e) ==
    IF st.worldptr[e] = Null
    THEN LET s1 == [st EXCEPT !.Entities[w] = @ \cup {e}]
             s2 == Sync(s1, e)
             s3 == Emit([s2 EXCEPT !.worldptr[e] = w], "Registered", w, e)
             s4 == Start(s3, e)
             s5 == Emit(Merge(s4, w, e), "Merged", w, e)
             s6 == [s5 EXCEPT !.parent[e] = w,
                              !.components[e] = Touch(@, "ChildEntityComponent")]
             s7 == SpawnEach(s6, w, ChildrenOf(s6, e))
         IN  [Emit(s7, "SpawnTrue", w, e) EXCEPT !.ret = TRUE]
    ELSE [Emit(Merge(st, w, e), "SpawnFalse", w, e) EXCEPT !.ret = FALSE]

\* Spawn that merges the entity's components before it starts the entity
SpawnMergesFirst(st, w, e) ==
    IF st.worldptr[e] = Null
    THEN LET s1 == [st EXCEPT !.Entities[w] = @ \cup {e}]
             s2 == Sync(s1, e)
             s3 == Emit([s2 EXCEPT !.worldptr[e] = w], "Registered", w, e)
             s4 == Merge(s3, w, e)
             s5 == Emit(Start(s4, e), "Merged", w, e)
             s6 == [s5 EXCEPT !.parent[e] = w,
                              !.components[e] = Touch(@, "ChildEntityComponent")]
             s7 == SpawnEach(s6, w, ChildrenOf(s6, e))
         IN  [Emit(s7, "SpawnTrue", w, e) EXCEPT !.ret = TRUE]
    ELSE [Emit(st, "SpawnFalse", w, e) EXCEPT !.ret = FALSE]

\* (the log has "Registered" once the entity is listed and points at the
\* world, and "Merged" once Merge has returned)
Spawn(st, w, e) ==
    IF st.worldptr[e] = Null
    THEN LET s1 == [st EXCEPT !.Entities[w] = @ \cup {e}]
             s2 == Sync(s1, e)
             s3 == Emit([s2 EXCEPT !.worldptr[e] = w], "Registered", w, e)
             s4 == Start(s3, e)
             s5 == Emit(Merge(s4, w, e), "Merged", w, e)
             s6 == [s5 EXCEPT !.parent[e] = w,
                              !.components[e] = Touch(@, "ChildEntityComponent")]
             s7 == SpawnEach(s6, w, ChildrenOf(s6, e))
         IN  [Emit(s7, "SpawnTrue", w, e) EXCEPT !.ret = TRUE]
    ELSE [Emit(st, "SpawnFalse", w, e) EXCEPT !.ret = FALSE]

\* Destroy that leaves the entity's components in the world's store
DestroyKeepsComponents(st, w, e) ==
    IF st.worldptr[e] = Null
    THEN [Emit(st, "DestroyFalse", w, e) EXCEPT !.ret = FALSE]
    ELSE LET s1 == [st EXCEPT !.worldptr[e] = Null]
             s2 == Stop(s1, e)
             s4 == [s2 EXCEPT !.parent[e] = Null,
                              !.Entities[w] = @ \ {e},
                              !.components[e] = Touch(@, "ChildEntityComponent")]
             s5 == DestroyEach(s4, w, ChildrenOf(s4, e))
         IN  [Emit(s5, "DestroyTrue", w, e) EXCEPT !.ret = TRUE]

Destroy(st, w, e) ==
    IF st.worldptr[e] = Null
    THEN [Emit(st, "DestroyFalse", w, e) EXCEPT !.ret = FALSE]
    ELSE LET s1 == [st EXCEPT !.worldptr[e] = Null]
             s2 == Stop(s1, e)
             s3 == Unmerge(s2, w, e)
             s4 == [s3 EXCEPT !.parent[e] = Null,
                              !.Entities[w] = @ \ {e},
                              !.components[e] = Touch(@, "ChildEntityComponent")]
             s5 == DestroyEach(s4, w, ChildrenOf(s4, e))
         IN  [Emit(s5, "DestroyTrue", w, e) EXCEPT !.ret = TRUE]

(***************************************************************************)
(* Actions: one per public call                                            *)
(***************************************************************************)
\* the state a call leaves behind; the log ends with the call and its result
Commit(st, call, s, arg) ==
    /\ Entities' = st.Entities
    /\ worldptr' = st.worldptr
    /\ parent' = st.parent
    /\ components' = st.components
    /\ componentsRedundant' = st.componentsRedundant
    /\ owner' = st.owner
    /\ lastHook' = st.lastHook
    /\ log' = Append(st.log, Event(call, s, arg))
    /\ UNCHANGED tickvars
    /\ UNCHANGED timevars
    /\ UNCHANGED threadvars
    /\ UNCHANGED isRendering
    /\ UNCHANGED utilvars

Blank ==
    [Entities |-> [w \in Worlds |-> {}], worldptr |-> [e \in Ents |-> Null],
     parent |-> [s \in Stores |-> Null],
     components |-> [s \in Stores |-> EmptyMap],
     componentsRedundant |-> [s \in Stores |-> EmptyMap],
     owner |-> [c \in AllComponents |-> Null], log |-> << >>,
     lastHook |-> [e \in Ents |-> "none"], ret |-> FALSE]

\* System::QueryTypes (in order), System::MustRunBefore, System::MustRunAfter
SystemEntry(queries, runbefore, runafter) ==
    [QueryTypes |-> queries, MustRunBefore |-> runbefore, MustRunAfter |-> runafter]

ScriptSystem == SystemEntry(<<"ScriptComponent">>, {}, {})
AudioRoomSyncSystem == SystemEntry(<<"AudioRoom">>, {}, {})
PhysicsLinkSystemWrite == SystemEntry(<<"PhysicsBodyComponent">>, {}, {})
\* PhysicsLinkSystemRead declaring that it runs before PhysicsLinkSystemWrite too
PhysicsLinkSystemReadBeforeWrite ==
    SystemEntry(<<"RigidBodyDynamicComponent">>, {"ScriptSystem", "PhysicsLinkSystemWrite"}, {})

\* PhysicsLinkSystemRead declaring no ordering
PhysicsLinkSystemReadUnordered == SystemEntry(<<"RigidBodyDynamicComponent">>, {}, {})

PhysicsLinkSystemRead == SystemEntry(<<"RigidBodyDynamicComponent">>, {"ScriptSystem"}, {})

\* the entities and stores are as in st
HoldsStores(st) ==
    /\ Entities = st.Entities
    /\ worldptr = st.worldptr
    /\ parent = st.parent
    /\ components = st.components
    /\ componentsRedundant = st.componentsRedundant
    /\ owner = st.owner
    /\ lastHook = st.lastHook
    /\ log = << >>

\* no thread is inside a call
NoThreads ==
    /\ refcount = 0
    /\ deleted = 0
    /\ threads = << >>

\* no input manager, unordered_vector or audio source is under observation
NoUtil ==
    /\ AxisBindings = << >>
    /\ vec = << >>
    /\ source = << >>

\* the entities and stores are as in st, and one thread makes the calls
HoldsEntities(st) ==
    /\ HoldsStores(st)
    /\ NoThreads
    /\ isRendering = FALSE
    /\ NoUtil

\* the World constructor registers ScriptSystem and AudioRoomSyncSystem
WorldSystems ==
    [k \in {"ScriptSystem", "AudioRoomSyncSystem"} |->
        IF k = "ScriptSystem" THEN ScriptSystem ELSE AudioRoomSyncSystem]

NoGraphs == [k \in {} |-> 0]

\* no timed system is registered
NoTimed == [k \in {} |-> 0]

\* as in st, with no frame under way and physics not initialised
Holds(st) ==
    /\ HoldsEntities(st)
    /\ systemManager = WorldSystems
    /\ physicsActive = FALSE
    /\ frame = "idle"
    /\ masterTasks = << >>
    /\ graphs = NoGraphs
    /\ edges = {}
    /\ now = 0
    /\ timedTick = NoTimed
    /\ inclusions = {}

\* the entity constructors add the components in cs (Entity::AddComponent)
RECURSIVE Construct(_, _)
Construct(st, cs) ==
    IF cs = << >> THEN st
    ELSE Construct(EntityAddComponent(st, HomeOf(Head(cs)), Head(cs)), Tail(cs))

\* no entity holds a component yet
Init == Holds(Blank)

\* every entity was constructed with its data component and, some of them,
\* with its ChildEntityComponent
InitConstructed ==
    \E cs \in SUBSET (Components \ DataComponents) :
        Holds(Construct(Blank, SetToSeq(DataComponents) \o SetToSeq(cs)))

\* some entities, still empty, were spawned into the first world
InitSpawned ==
    \E es \in SUBSET Ents :
        Holds([SpawnEach(Blank, FirstWorld, SetToSeq(es)) EXCEPT !.log = << >>])

DoSpawn(w, e) == Commit(Spawn(State, w, e), "Spawn", w, e)

DoDestroy(w, e) == Commit(Destroy(State, w, e), "Destroy", w, e)

\* Entity::AddComponent on the entity that created the component
DoEntityAddComponent(e, c) ==
    /\ HomeOf(c) = e
    /\ Commit(EntityAddComponent(State, e, c), "AddComponent", e, c)

\* ComponentStore::RemoveComponent on any store
DoRemoveComponent(s, c) ==
    /\ s \in Ents => HomeOf(c) = s
    /\ Commit(RemoveComponent(State, s, c), "RemoveComponent", s, c)

DoClear(e) == Commit(clear(State, e), "clear", e, Null)

DoMerge(w, e) == Commit(Merge(State, w, e), "Merge", w, e)

DoUnmerge(w, e) == Commit(Unmerge(State, w, e), "Unmerge", w, e)

\* Entity::IsInWorld(): return worldptr.isNull()
IsInWorld(st, e) == st.worldptr[e] = Null

\* Spawn and Destroy on any world, over entities as constructed
Next ==
    \/ \E w \in Worlds, e \in Ents : DoSpawn(w, e)
    \/ \E w \in Worlds, e \in Ents : DoDestroy(w, e)

Spec == InitConstructed /\ [][Next]_vars

\* one world and its entities: lifecycle and component calls together
NextEntity ==
    \/ \E e \in Ents : DoSpawn(FirstWorld, e)
    \/ \E e \in Ents : DoDestroy(FirstWorld, e)
    \/ \E e \in Ents, c \in DataComponents : DoEntityAddComponent(e, c)
    \/ \E e \in Ents, c \in DataComponents : DoRemoveComponent(e, c)
    \/ \E e \in Ents : DoClear(e)

SpecEntity == Init /\ [][NextEntity]_vars

\* the same calls and the bulk calls World::Spawn and World::Destroy rest on
NextHooks ==
    \/ NextEntity
    \/ \E e \in Ents : DoMerge(FirstWorld, e)
    \/ \E e \in Ents : DoUnmerge(FirstWorld, e)

SpecHooks == Init /\ [][NextHooks]_vars

\* the store calls alone, on the stores of one world and its entities
NextStore ==
    \/ \E e \in Ents, c \in DataComponents : DoEntityAddComponent(e, c)
    \/ \E s \in Ents \cup {FirstWorld}, c \in DataComponents : DoRemoveComponent(s, c)
    \/ \E e \in Ents : DoMerge(FirstWorld, e)
    \/ \E e \in Ents : DoUnmerge(FirstWorld, e)

SpecStore == InitSpawned /\ [][NextStore]_vars

\* some entities were constructed with their data component, the others get
\* it later
InitRespawn ==
    \E cs \in SUBSET DataComponents : Holds(Construct(Blank, SetToSeq(cs)))

\* entities move between the two worlds and get components on the way
NextRespawn ==
    \/ \E w \in Worlds, e \in Ents : DoSpawn(w, e)
    \/ \E w \in Worlds, e \in Ents : DoDestroy(w, e)
    \/ \E e \in Ents, c \in DataComponents : DoEntityAddComponent(e, c)

SpecRespawn == InitRespawn /\ [][NextRespawn]_vars

(***************************************************************************)
(* The queries of a store                                                  *)
(***************************************************************************)
\* the types the game queries for
QueryTypes == {"RigidBodyDynamicComponent", "PhysicsBodyComponent", "Foo"}

\* the stores the game queries
QueryStores == {FirstWorld}

\* GetComponent<T>() returns some first element of the bucket it settles on,
\* or throws
DoGetComponent(s, T) ==
    LET st == GetComponent(State, s, T)
    IN  IF st.ret = {} THEN Commit(Emit(st, "NotFound", T, Null), "GetComponent", s, T)
        ELSE \E r \in st.ret : Commit(Emit(st, "Found", T, r), "GetComponent", s, T)

DoHasComponentOfType(s, T) ==
    Commit(Emit(State, "Has", T, HasComponentOfType(State, s, T)), "HasComponentOfType", s, T)

DoGetAllComponentsOfType(s, T) ==
    LET st == GetAllComponentsOfType(State, s, T)
    IN  Commit(Emit(st, "All", T, st.ret), "GetAllComponentsOfType", s, T)

DoGetAllComponentsOfSubclass(s, T) ==
    LET st == GetAllComponentsOfSubclass(State, s, T)
    IN  Commit(Emit(st, "All", T, st.ret), "GetAllComponentsOfSubclass", s, T)

DoFastPath(s, T) ==
    LET st == GetAllComponentsOfTypeIndexFastPath(State, s, T)
    IN  Commit(Emit(st, "All", T, st.ret), "GetAllComponentsOfTypeFastPath", s, T)

DoSubclassFastPath(s, T) ==
    LET st == GetAllComponentsOfTypeIndexSubclassFastPath(State, s, T)
    IN  Commit(Emit(st, "All", T, st.ret), "GetAllComponentsOfTypeSubclassFastPath", s, T)

\* every entity was constructed with its data component
InitQuery == Holds(Construct(Blank, SetToSeq(DataComponents)))

\* the store calls and the queries, on the store of the first world
NextQuery ==
    \/ \E e \in Ents : DoSpawn(FirstWorld, e)
    \/ \E e \in Ents, c \in DataComponents : DoEntityAddComponent(e, c)
    \/ \E s \in QueryStores, c \in DataComponents : DoRemoveComponent(s, c)
    \/ \E e \in Ents : DoMerge(FirstWorld, e)
    \/ \E e \in Ents : DoUnmerge(FirstWorld, e)
    \/ \E s \in QueryStores, T \in QueryTypes : DoGetComponent(s, T)
    \/ \E s \in QueryStores, T \in QueryTypes : DoHasComponentOfType(s, T)
    \/ \E s \in QueryStores, T \in QueryTypes : DoGetAllComponentsOfType(s, T)
    \/ \E s \in QueryStores, T \in QueryTypes : DoGetAllComponentsOfSubclass(s, T)
    \/ \E s \in QueryStores, T \in QueryTypes : DoFastPath(s, T)
    \/ \E s \in QueryStores, T \in QueryTypes : DoSubclassFastPath(s, T)

SpecQuery == InitQuery /\ [][NextQuery]_vars

(***************************************************************************)
(* World::Tick: the task graph of one frame of the first world             *)
(***************************************************************************)
\* the systems the game registers: SystemA over one or two component types,
\* SystemB over one, with the ordering sets they may declare
UserSystems ==
    {[k \in {"SystemA", "SystemB"} |->
        IF k = "SystemA" THEN SystemEntry(qa, ba, aa) ELSE SystemEntry(<<"Foo">>, {}, ab)] :
        qa \in {<<"Foo">>, <<"Foo", "ScriptComponent">>},
        ba \in SUBSET {"SystemB", "PhysicsLinkSystemWrite"},
        aa \in SUBSET {"PhysicsLinkSystemRead"},
        ab \in SUBSET {"SystemA"}}

\* what the Tick callback of a system may call on the world that ticks it
\* ("DestroyLast": Destroy, the world having held the last strong reference)
TickCalls(ID) ==
    IF ID = "SystemB"
    THEN {"none", "Spawn", "Destroy", "DestroyLast", "AddComponent", "RemoveComponent"}
    ELSE {"none"}

RegisterSystem(sm, ID, entry) == [k \in DOMAIN sm \cup {ID} |-> IF k = ID THEN entry ELSE sm[k]]

\* add_system_to_tick: one for_each task per query type over a copy of the
\* world's bucket of that exact type; graphs[ID] is assigned in every round
RECURSIVE add_system_to_tick(_, _, _)
add_system_to_tick(g, ID, queries) ==
    IF queries = << >> THEN g
    ELSE LET query == Head(queries)
             store == Touch(g.store, query)
             task == [system |-> ID, query |-> query, status |-> "pending",
                      items |-> store[query], todo |-> store[query], ticked |-> {}]
             tasks == Append(g.tasks, task)
         IN  add_system_to_tick(
                 [tasks |-> tasks,
                  graphs |-> [k \in DOMAIN g.graphs \cup {ID} |->
                                 IF k = ID THEN Len(tasks) ELSE g.graphs[k]],
                  store |-> store],
                 ID, Tail(queries))

\* the loop over GetAlwaysTickSystems()
RECURSIVE AlwaysTickSystems(_, _, _)
AlwaysTickSystems(g, sm, IDs) ==
    IF IDs = << >> THEN g
    ELSE AlwaysTickSystems(add_system_to_tick(g, Head(IDs), sm[Head(IDs)].QueryTypes),
                           sm, Tail(IDs))

\* the timed system is included whenever the clock has not gone back
IsDueAlways(entry, t) == t - entry.last_timestamp >= 0

\* now - s.second.last_timestamp > s.second.interval
IsDue(entry, t) == t - entry.last_timestamp > entry.interval

\* the loop over GetTimedTickSystems(), for the systems that are due
RECURSIVE TimedTickSystems(_, _, _)
TimedTickSystems(g, timed, IDs) ==
    IF IDs = << >> THEN g
    ELSE TimedTickSystems(
             add_system_to_tick(g, Head(IDs), timed[Head(IDs)].system.QueryTypes),
             timed, Tail(IDs))

\* the render tasks, in the order TickECS emplaces them
RenderTaskNames ==
    <<"camproc", "sort", "copydirs", "copyambs", "copyspots", "copypoints", "swap", "setup">>

\* the component type a collector lambda asks the world for when it runs
CollectorType(name) ==
    CASE name = "camproc" -> "CameraComponent"
      [] name = "copydirs" -> "DirectionalLight"
      [] name = "copyambs" -> "AmbientLight"
      [] name = "copyspots" -> "SpotLight"
      [] name = "copypoints" -> "PointLight"
      [] OTHER -> ""

\* the tasks of the "if (isRendering)" block: sort is a for_each over geometry,
\* the copy of the StaticMesh bucket; the others are single lambdas
RenderTasks(store) ==
    [i \in 1..Len(RenderTaskNames) |->
        LET name == RenderTaskNames[i]
            geometry == IF name = "sort" THEN Bucket(store, "StaticMesh") ELSE {}
        IN  [system |-> name, query |-> IF name = "sort" THEN "StaticMesh" ELSE "",
             status |-> "pending", items |-> geometry, todo |-> geometry, ticked |-> {}]]

\* the task of render lambda name, the render tasks following r other tasks
RenderTask(r, name) ==
    r + CHOOSE i \in 1..Len(RenderTaskNames) : RenderTaskNames[i] = name

\* the tasks that write the current frame data besides sort
Copies == {"camproc", "copydirs", "copyambs", "copyspots", "copypoints"}

\* render edges without camproc.precede(sort)
RenderEdgesSortFree(gr, r) ==
    {<<RenderTask(r, "setup"), RenderTask(r, c)>> : c \in Copies}
    \cup {<<RenderTask(r, "sort"), RenderTask(r, "swap")>>}
    \cup {<<gr["ScriptSystem"], RenderTask(r, c)>> : c \in Copies}
    \cup {<<RenderTask(r, c), RenderTask(r, "swap")>> : c \in Copies}

\* setup.precede(...); sort.precede(swap); camproc.precede(sort);
\* graphs[ScriptSystem].task.precede(...); swap.succeed(...)
RenderEdges(gr, r) ==
    {<<RenderTask(r, "setup"), RenderTask(r, c)>> : c \in Copies}
    \cup {<<RenderTask(r, "sort"), RenderTask(r, "swap")>>}
    \cup {<<RenderTask(r, "camproc"), RenderTask(r, "sort")>>}
    \cup {<<gr["ScriptSystem"], RenderTask(r, c)>> : c \in Copies}
    \cup {<<RenderTask(r, c), RenderTask(r, "swap")>> : c \in Copies}

\* the solver task misses its edge from the write task
RunPhysicsPrecedesOnly(gr, p) ==
    {<<p, gr["PhysicsLinkSystemRead"]>>}

\* RunPhysics.precede(read task); RunPhysics.succeed(write task)
RunPhysics(gr, p) ==
    {<<p, gr["PhysicsLinkSystemRead"]>>, <<gr["PhysicsLinkSystemWrite"], p>>}

\* dependency wiring that does not look whether the named system is in
\* graphs: graphs[id] of a system that is not there is a task that does not
\* exist (0)
DependenciesUnchecked(sm, gr) ==
    UNION {{<<gr[ID], IF id \in DOMAIN gr THEN gr[id] ELSE 0>> : id \in sm[ID].MustRunBefore}
           \cup {<<IF id \in DOMAIN gr THEN gr[id] ELSE 0, gr[ID]>> : id \in sm[ID].MustRunAfter} :
           ID \in DOMAIN gr}

\* "figure out dependencies": the declared sets, for the systems in graphs
Dependencies(sm, gr) ==
    UNION {{<<gr[ID], gr[id]>> : id \in sm[ID].MustRunBefore \cap DOMAIN gr}
           \cup {<<gr[id], gr[ID]>> : id \in sm[ID].MustRunAfter \cap DOMAIN gr} :
           ID \in DOMAIN gr}

\* World::Tick is called: the pretick hook runs
DoPretick ==
    /\ frame = "idle"
    /\ frame' = "pretick"
    /\ UNCHANGED <<Entities, worldptr, parent, components, componentsRedundant, owner, log,
                   lastHook, systemManager, physicsActive, masterTasks, graphs, edges>>
    /\ UNCHANGED timevars
    /\ UNCHANGED threadvars
    /\ UNCHANGED isRendering
    /\ UNCHANGED utilvars

\* TickECS that leaves last_timestamp of the timed systems it includes as it was
DoTickStampsNothing ==
    /\ frame = "pretick"
    /\ LET due == {ID \in DOMAIN timedTick : IsDue(timedTick[ID], now)}
           always == AlwaysTickSystems(
                    [tasks |-> << >>, graphs |-> NoGraphs, store |-> components[FirstWorld]],
                    systemManager, SetToSeq(DOMAIN systemManager))
           g == TimedTickSystems(always, timedTick, SetToSeq(due))
           systems == [ID \in DOMAIN systemManager \cup DOMAIN timedTick |->
                          IF ID \in DOMAIN systemManager THEN systemManager[ID]
                          ELSE timedTick[ID].system]
           solver == [system |-> "RunPhysics", query |-> "", status |-> "pending",
                      items |-> {}, todo |-> {}, ticked |-> {}]
           store == IF isRendering THEN Touch(g.store, "StaticMesh") ELSE g.store
           tasks == IF isRendering THEN g.tasks \o RenderTasks(store) ELSE g.tasks
           p == Len(tasks) + 1
       IN  /\ masterTasks' = IF physicsActive THEN Append(tasks, solver) ELSE tasks
           /\ graphs' = g.graphs
           /\ edges' = (IF isRendering THEN RenderEdges(g.graphs, Len(g.tasks)) ELSE {})
                       \cup (IF physicsActive THEN RunPhysics(g.graphs, p) ELSE {})
                       \cup Dependencies(systems, g.graphs)
           /\ components' = [components EXCEPT ![FirstWorld] = store]
           /\ timedTick' = timedTick
           /\ inclusions' = inclusions \cup {<<ID, now>> : ID \in due}
    /\ frame' = "running"
    /\ UNCHANGED <<Entities, worldptr, parent, componentsRedundant, owner, log, lastHook,
                   systemManager, physicsActive, now>>
    /\ UNCHANGED threadvars
    /\ UNCHANGED isRendering
    /\ UNCHANGED utilvars

\* pretick has returned: TickECS builds the graph and hands it to the executor
DoTick ==
    /\ frame = "pretick"
    /\ LET due == {ID \in DOMAIN timedTick : IsDue(timedTick[ID], now)}
           always == AlwaysTickSystems(
                    [tasks |-> << >>, graphs |-> NoGraphs, store |-> components[FirstWorld]],
                    systemManager, SetToSeq(DOMAIN systemManager))
           g == TimedTickSystems(always, timedTick, SetToSeq(due))
           systems == [ID \in DOMAIN systemManager \cup DOMAIN timedTick |->
                          IF ID \in DOMAIN systemManager THEN systemManager[ID]
                          ELSE timedTick[ID].system]
           solver == [system |-> "RunPhysics", query |-> "", status |-> "pending",
                      items |-> {}, todo |-> {}, ticked |-> {}]
           store == IF isRendering THEN Touch(g.store, "StaticMesh") ELSE g.store
           tasks == IF isRendering THEN g.tasks \o RenderTasks(store) ELSE g.tasks
           p == Len(tasks) + 1
       IN  /\ masterTasks' = IF physicsActive THEN Append(tasks, solver) ELSE tasks
           /\ graphs' = g.graphs
           /\ edges' = (IF isRendering THEN RenderEdges(g.graphs, Len(g.tasks)) ELSE {})
                       \cup (IF physicsActive THEN RunPhysics(g.graphs, p) ELSE {})
                       \cup Dependencies(systems, g.graphs)
           /\ components' = [components EXCEPT ![FirstWorld] = store]
           /\ timedTick' = [ID \in DOMAIN timedTick |->
                               IF ID \in due THEN [timedTick[ID] EXCEPT !.last_timestamp = now]
                               ELSE timedTick[ID]]
           /\ inclusions' = inclusions \cup {<<ID, now>> : ID \in due}
    /\ frame' = "running"
    /\ UNCHANGED <<Entities, worldptr, parent, componentsRedundant, owner, log, lastHook,
                   systemManager, physicsActive, now>>
    /\ UNCHANGED threadvars
    /\ UNCHANGED isRendering
    /\ UNCHANGED utilvars

\* an executor that holds a task back until the tasks it precedes have
\* finished as well
TaskStartAfterSuccessors(t) ==
    /\ frame = "running"
    /\ masterTasks[t].status = "pending"
    /\ \A ed \in edges : ed[2] = t => masterTasks[ed[1]].status = "done"
    /\ \A ed \in edges : ed[1] = t => masterTasks[ed[2]].status = "done"
    /\ masterTasks' = [masterTasks EXCEPT ![t].status = "running"]
    /\ UNCHANGED <<Entities, worldptr, parent, components, componentsRedundant, owner, log,
                   lastHook, systemManager, physicsActive, frame, graphs, edges>>
    /\ UNCHANGED timevars
    /\ UNCHANGED threadvars
    /\ UNCHANGED isRendering
    /\ UNCHANGED utilvars

\* the executor starts a task once every task that precedes it has finished
TaskStart(t) ==
    /\ frame = "running"
    /\ masterTasks[t].status = "pending"
    /\ \A ed \in edges : ed[2] = t => masterTasks[ed[1]].status = "done"
    /\ masterTasks' = [masterTasks EXCEPT ![t].status = "running"]
    /\ UNCHANGED <<Entities, worldptr, parent, components, componentsRedundant, owner, log,
                   lastHook, systemManager, physicsActive, frame, graphs, edges>>
    /\ UNCHANGED timevars
    /\ UNCHANGED threadvars
    /\ UNCHANGED isRendering
    /\ UNCHANGED utilvars

\* the entity is freed: every weak owner reference to it expires
Expire(st, e) == [st EXCEPT !.owner = [c \in AllComponents |-> IF @[c] = e THEN Null ELSE @[c]]]

\* what the call made by a Tick callback on entity en does
TickCall(st, call, en, e) ==
    CASE call = "Spawn" -> Spawn(st, FirstWorld, e)
      [] call = "Destroy" -> Destroy(st, FirstWorld, en)
      [] call = "DestroyLast" -> Expire(Destroy(st, FirstWorld, en), en)
      [] call = "AddComponent" -> EntityAddComponent(st, e, <<"script", e[2]>>)
      [] call = "RemoveComponent" -> RemoveComponent(st, en, <<"data", en[2]>>)
      [] OTHER -> st

\* func invokes the system's Tick without looking at what lock() returned
TickOneNoOwnerCheck(t, c, call, e) ==
    /\ frame = "running"
    /\ masterTasks[t].status = "running"
    /\ c \in masterTasks[t].todo
    /\ call \in TickCalls(masterTasks[t].system)
    /\ LET en == owner[c]
           st == IF en = Null THEN State ELSE TickCall(State, call, en, e)
       IN  /\ masterTasks' = [masterTasks EXCEPT ![t].todo = @ \ {c},
                                                 ![t].ticked = @ \cup {c}]
           /\ Entities' = st.Entities
           /\ worldptr' = st.worldptr
           /\ parent' = st.parent
           /\ components' = st.components
           /\ componentsRedundant' = st.componentsRedundant
           /\ owner' = st.owner
           /\ lastHook' = st.lastHook
           /\ log' = << >>
    /\ UNCHANGED <<systemManager, physicsActive, frame, graphs, edges>>
    /\ UNCHANGED timevars
    /\ UNCHANGED threadvars
    /\ UNCHANGED isRendering
    /\ UNCHANGED utilvars

\* a for_each that does not move on past the component it has handled
TickOneKeepsTodo(t, c, call, e) ==
    /\ frame = "running"
    /\ masterTasks[t].status = "running"
    /\ c \in masterTasks[t].todo
    /\ call \in TickCalls(masterTasks[t].system)
    /\ LET en == owner[c]
           st == IF en = Null THEN State ELSE TickCall(State, call, en, e)
       IN  /\ masterTasks' = [masterTasks EXCEPT
                                 ![t].ticked = IF en = Null THEN @ ELSE @ \cup {c}]
           /\ Entities' = st.Entities
           /\ worldptr' = st.worldptr
           /\ parent' = st.parent
           /\ components' = st.components
           /\ componentsRedundant' = st.componentsRedundant
           /\ owner' = st.owner
           /\ lastHook' = st.lastHook
           /\ log' = << >>
    /\ UNCHANGED <<systemManager, physicsActive, frame, graphs, edges>>
    /\ UNCHANGED timevars
    /\ UNCHANGED threadvars
    /\ UNCHANGED isRendering
    /\ UNCHANGED utilvars

\* a for_each that walks the world's buckets themselves, not copies of them
TickOneLiveView(t, c, call, e) ==
    /\ frame = "running"
    /\ masterTasks[t].status = "running"
    /\ c \in masterTasks[t].todo
    /\ call \in TickCalls(masterTasks[t].system)
    /\ LET en == owner[c]
           st == IF en = Null THEN State ELSE TickCall(State, call, en, e)
           done == [masterTasks EXCEPT
                       ![t].todo = @ \ {c},
                       ![t].ticked = IF en = Null THEN @ ELSE @ \cup {c}]
       IN  /\ masterTasks' =
                  [u \in 1..Len(done) |->
                      IF done[u].system = "RunPhysics" THEN done[u]
                      ELSE [done[u] EXCEPT
                               !.items = Bucket(st.components[FirstWorld], done[u].query),
                               !.todo = (@ \cap Bucket(st.components[FirstWorld], done[u].query))
                                        \cup (Bucket(st.components[FirstWorld], done[u].query)
                                              \ done[u].items)]]
           /\ Entities' = st.Entities
           /\ worldptr' = st.worldptr
           /\ parent' = st.parent
           /\ components' = st.components
           /\ componentsRedundant' = st.componentsRedundant
           /\ owner' = st.owner
           /\ lastHook' = st.lastHook
           /\ log' = << >>
    /\ UNCHANGED <<systemManager, physicsActive, frame, graphs, edges>>
    /\ UNCHANGED timevars
    /\ UNCHANGED threadvars
    /\ UNCHANGED isRendering
    /\ UNCHANGED utilvars

\* one round of the task's for_each: func(c) locks the owner and, if there is
\* one, invokes the system's Tick on it; the Tick may call Spawn(e) or
\* Destroy(owner) on the world
TickOne(t, c, call, e) ==
    /\ frame = "running"
    /\ masterTasks[t].status = "running"
    /\ c \in masterTasks[t].todo
    /\ call \in TickCalls(masterTasks[t].system)
    /\ LET en == owner[c]
           st == IF en = Null THEN State ELSE TickCall(State, call, en, e)
       IN  /\ masterTasks' = [masterTasks EXCEPT
                                 ![t].todo = @ \ {c},
                                 ![t].ticked = IF en = Null THEN @ ELSE @ \cup {c}]
           /\ Entities' = st.Entities
           /\ worldptr' = st.worldptr
           /\ parent' = st.parent
           /\ components' = st.components
           /\ componentsRedundant' = st.componentsRedundant
           /\ owner' = st.owner
           /\ lastHook' = st.lastHook
           /\ log' = << >>
    /\ UNCHANGED <<systemManager, physicsActive, frame, graphs, edges>>
    /\ UNCHANGED timevars
    /\ UNCHANGED threadvars
    /\ UNCHANGED isRendering
    /\ UNCHANGED utilvars

\* the for_each has gone through its copy (the solver task: Solver.Tick
\* returned; a collector lambda: it has asked the world for its components
\* and returned)
TaskEnd(t) ==
    /\ frame = "running"
    /\ masterTasks[t].status = "running"
    /\ masterTasks[t].todo = {}
    /\ masterTasks' = [masterTasks EXCEPT ![t].status = "done"]
    /\ components' =
           IF CollectorType(masterTasks[t].system) = "" THEN components
           ELSE GetAllComponentsOfType(State, FirstWorld,
                                       CollectorType(masterTasks[t].system)).components
    /\ UNCHANGED <<Entities, worldptr, parent, componentsRedundant, owner, log,
                   lastHook, systemManager, physicsActive, frame, graphs, edges>>
    /\ UNCHANGED timevars
    /\ UNCHANGED threadvars
    /\ UNCHANGED isRendering
    /\ UNCHANGED utilvars

\* TickECS returns without waiting for the tasks
DoTickReturnNoWait ==
    /\ frame = "running"
    /\ frame' = "posttick"
    /\ masterTasks' = << >>
    /\ graphs' = NoGraphs
    /\ edges' = {}
    /\ UNCHANGED <<Entities, worldptr, parent, components, componentsRedundant, owner, log,
                   lastHook, systemManager, physicsActive>>
    /\ UNCHANGED timevars
    /\ UNCHANGED threadvars
    /\ UNCHANGED isRendering
    /\ UNCHANGED utilvars

\* the posttick hook returns and with it World::Tick
DoPosttick ==
    /\ frame = "posttick"
    /\ frame' = "idle"
    /\ UNCHANGED <<Entities, worldptr, parent, components, componentsRedundant, owner, log,
                   lastHook, systemManager, physicsActive, masterTasks, graphs, edges>>
    /\ UNCHANGED timevars
    /\ UNCHANGED threadvars
    /\ UNCHANGED isRendering
    /\ UNCHANGED utilvars

\* wait() returns when every task has finished; masterTasks.clear(); TickECS
\* returns and the posttick hook runs
DoTickReturn ==
    /\ frame = "running"
    /\ \A t \in 1..Len(masterTasks) : masterTasks[t].status = "done"
    /\ frame' = "posttick"
    /\ masterTasks' = << >>
    /\ graphs' = NoGraphs
    /\ edges' = {}
    /\ UNCHANGED <<Entities, worldptr, parent, components, componentsRedundant, owner, log,
                   lastHook, systemManager, physicsActive>>
    /\ UNCHANGED timevars
    /\ UNCHANGED threadvars
    /\ UNCHANGED isRendering
    /\ UNCHANGED utilvars

\* InitPhysics that toggles physicsActive
DoInitPhysicsToggles ==
    /\ frame = "idle"
    /\ systemManager' =
           RegisterSystem(
               RegisterSystem(systemManager, "PhysicsLinkSystemRead", PhysicsLinkSystemRead),
               "PhysicsLinkSystemWrite", PhysicsLinkSystemWrite)
    /\ physicsActive' = ~physicsActive
    /\ log' = <<Event("InitPhysics", FirstWorld, TRUE)>>
    /\ UNCHANGED <<Entities, worldptr, parent, components, componentsRedundant, owner,
                   lastHook, frame, masterTasks, graphs, edges>>
    /\ UNCHANGED timevars
    /\ UNCHANGED threadvars
    /\ UNCHANGED isRendering
    /\ UNCHANGED utilvars

\* World::InitPhysics, called between frames; the log has what it returned
DoInitPhysics ==
    /\ frame = "idle"
    /\ IF physicsActive
       THEN /\ UNCHANGED <<systemManager, physicsActive>>
            /\ log' = <<Event("InitPhysics", FirstWorld, FALSE)>>
       ELSE /\ systemManager' =
                   RegisterSystem(
                       RegisterSystem(systemManager, "PhysicsLinkSystemRead", PhysicsLinkSystemRead),
                       "PhysicsLinkSystemWrite", PhysicsLinkSystemWrite)
            /\ physicsActive' = TRUE
            /\ log' = <<Event("InitPhysics", FirstWorld, TRUE)>>
    /\ UNCHANGED <<Entities, worldptr, parent, components, componentsRedundant, owner,
                   lastHook, frame, masterTasks, graphs, edges>>
    /\ UNCHANGED timevars
    /\ UNCHANGED threadvars
    /\ UNCHANGED isRendering
    /\ UNCHANGED utilvars

\* every entity was constructed with its data component, a script and a
\* physics body and spawned into the first world; the game has registered
\* SystemA and SystemB
InitTick ==
    \E us \in UserSystems :
        /\ HoldsEntities([SpawnEach(
                              Construct(Blank, SetToSeq(DataComponents \cup TickedComponents)),
                              FirstWorld, SetToSeq(Ents))
                          EXCEPT !.log = << >>])
        /\ systemManager = RegisterSystem(RegisterSystem(WorldSystems, "SystemA", us["SystemA"]),
                                          "SystemB", us["SystemB"])
        /\ physicsActive = FALSE
        /\ frame = "idle"
        /\ masterTasks = << >>
        /\ graphs = NoGraphs
        /\ edges = {}
        /\ now = 0
        /\ timedTick = NoTimed
        /\ inclusions = {}

\* the clock moves on
DoClock ==
    /\ now < MaxNow
    /\ now' = now + 1
    /\ UNCHANGED <<Entities, worldptr, parent, components, componentsRedundant, owner, log,
                   lastHook, timedTick, inclusions>>
    /\ UNCHANGED tickvars
    /\ UNCHANGED threadvars
    /\ UNCHANGED isRendering
    /\ UNCHANGED utilvars

\* the world of InitSpawned-like games: every entity constructed with its data
\* component and spawned; the game has registered the timed system SystemT
\* over Foo, with some interval and some earlier last_timestamp
InitTimed ==
    \E I \in 0..MaxInterval : \E last \in 0..MaxInterval :
        /\ HoldsEntities([SpawnEach(Construct(Blank, SetToSeq(DataComponents)),
                                    FirstWorld, SetToSeq(Ents))
                          EXCEPT !.log = << >>])
        /\ systemManager = WorldSystems
        /\ physicsActive = FALSE
        /\ frame = "idle"
        /\ masterTasks = << >>
        /\ graphs = NoGraphs
        /\ edges = {}
        /\ now = 0
        /\ timedTick = [k \in {"SystemT"} |->
                           [system |-> SystemEntry(<<"Foo">>, {}, {}),
                            interval |-> I, last_timestamp |-> last]]
        /\ inclusions = {}

NextTimed ==
    \/ DoClock
    \/ DoPretick
    \/ DoTick
    \/ \E t \in 1..Len(masterTasks) : TaskStart(t)
    \/ \E t \in 1..Len(masterTasks) : \E c \in AllComponents : TickOne(t, c, "none", EntityAt(1))
    \/ \E t \in 1..Len(masterTasks) : TaskEnd(t)
    \/ DoTickReturn
    \/ DoPosttick

SpecTimed == InitTimed /\ [][NextTimed]_vars

\* as InitTimed, the game having registered as well the always-tick SystemA
\* over Foo, which declares that it runs before the timed SystemT; SystemT
\* declares that it runs after SystemB, which nobody has registered
InitSkipped ==
    \E I \in 0..MaxInterval :
        /\ HoldsEntities([SpawnEach(Construct(Blank, SetToSeq(DataComponents)),
                                    FirstWorld, SetToSeq(Ents))
                          EXCEPT !.log = << >>])
        /\ systemManager = RegisterSystem(WorldSystems, "SystemA",
                                          SystemEntry(<<"Foo">>, {"SystemT"}, {}))
        /\ physicsActive = FALSE
        /\ frame = "idle"
        /\ masterTasks = << >>
        /\ graphs = NoGraphs
        /\ edges = {}
        /\ now = 0
        /\ timedTick = [k \in {"SystemT"} |->
                           [system |-> SystemEntry(<<"Foo">>, {}, {"SystemB"}),
                            interval |-> I, last_timestamp |-> 0]]
        /\ inclusions = {}

SpecSkipped == InitSkipped /\ [][NextTimed]_vars

\* SystemA and SystemB declare no ordering
InitStale ==
    /\ InitTick
    /\ \A ID \in {"SystemA", "SystemB"} :
          systemManager[ID].MustRunBefore = {} /\ systemManager[ID].MustRunAfter = {}

\* frames in which a Tick callback destroys the entity it is ticking and the
\* entity is freed with that
NextStale ==
    \/ DoInitPhysics
    \/ DoPretick
    \/ DoTick
    \/ \E t \in 1..Len(masterTasks) : TaskStart(t)
    \/ \E t \in 1..Len(masterTasks) : \E c \in AllComponents :
           \E call \in {"none", "DestroyLast"} : TickOne(t, c, call, EntityAt(1))
    \/ \E t \in 1..Len(masterTasks) : TaskEnd(t)
    \/ DoTickReturn
    \/ DoPosttick

SpecStale == InitStale /\ [][NextStale]_vars

\* every entity was constructed with its data component (entity 1: a
\* RigidBodyDynamicComponent) and a script and spawned into the first world;
\* the game has registered no system of its own
InitAlternate ==
    /\ HoldsEntities([SpawnEach(
                          Construct(Blank,
                                    SetToSeq(DataComponents
                                             \cup {c \in TickedComponents : c[1] = "script"})),
                          FirstWorld, SetToSeq(Ents))
                      EXCEPT !.log = << >>])
    /\ systemManager = WorldSystems
    /\ physicsActive = FALSE
    /\ frame = "idle"
    /\ masterTasks = << >>
    /\ graphs = NoGraphs
    /\ edges = {}
    /\ now = 0
    /\ timedTick = NoTimed
    /\ inclusions = {}

\* frames of the engine's own systems, whose Tick calls nothing on the world
NextAlternate ==
    \/ DoInitPhysics
    \/ DoPretick
    \/ DoTick
    \/ \E t \in 1..Len(masterTasks) : TaskStart(t)
    \/ \E t \in 1..Len(masterTasks) : \E c \in AllComponents :
           TickOne(t, c, "none", EntityAt(1))
    \/ \E t \in 1..Len(masterTasks) : TaskEnd(t)
    \/ DoTickReturn
    \/ DoPosttick

SpecAlternate == InitAlternate /\ [][NextAlternate]_vars

\* entity 1 was constructed with its data component, entity 2 with its data
\* component (a Foo) and a script; both are spawned; the game has registered
\* SystemA over Foo and ScriptComponent and SystemB over Foo, unordered
InitSnapshot ==
    /\ HoldsEntities([SpawnEach(
                          Construct(Blank, SetToSeq(DataComponents \cup {<<"script", 2>>})),
                          FirstWorld, SetToSeq(Ents))
                      EXCEPT !.log = << >>])
    /\ systemManager =
           RegisterSystem(RegisterSystem(WorldSystems, "SystemA",
                                         SystemEntry(<<"Foo", "ScriptComponent">>, {}, {})),
                          "SystemB", SystemEntry(<<"Foo">>, {}, {}))
    /\ physicsActive = FALSE
    /\ frame = "idle"
    /\ masterTasks = << >>
    /\ graphs = NoGraphs
    /\ edges = {}
    /\ now = 0
    /\ timedTick = NoTimed
    /\ inclusions = {}

\* frames in which the Tick of SystemB adds a script to entity 1, removes the
\* data component of the entity it ticks, or spawns or destroys an entity
NextSnapshot ==
    \/ DoPretick
    \/ DoTick
    \/ \E t \in 1..Len(masterTasks) : TaskStart(t)
    \/ \E t \in 1..Len(masterTasks) : \E c \in AllComponents :
           \E call \in {"none", "Spawn", "Destroy", "AddComponent", "RemoveComponent"} :
               TickOne(t, c, call, EntityAt(1))
    \/ \E t \in 1..Len(masterTasks) : TaskEnd(t)
    \/ DoTickReturn
    \/ DoPosttick

SpecSnapshot == InitSnapshot /\ [][NextSnapshot]_vars

\* every entity was constructed with a script and spawned; only the systems of
\* the engine are registered; the world is rendered or not
InitRender ==
    /\ HoldsStores([SpawnEach(
                        Construct(Blank, SetToSeq({c \in TickedComponents : c[1] = "script"})),
                        FirstWorld, SetToSeq(Ents))
                    EXCEPT !.log = << >>])
    /\ NoThreads
    /\ NoUtil
    /\ isRendering \in BOOLEAN
    /\ systemManager = WorldSystems
    /\ physicsActive = FALSE
    /\ frame = "idle"
    /\ masterTasks = << >>
    /\ graphs = NoGraphs
    /\ edges = {}
    /\ now = 0
    /\ timedTick = NoTimed
    /\ inclusions = {}

SpecRender == InitRender /\ [][NextAlternate]_vars

NextTick ==
    \/ DoInitPhysics
    \/ DoPretick
    \/ DoTick
    \/ \E t \in 1..Len(masterTasks) : TaskStart(t)
    \/ \E t \in 1..Len(masterTasks) : \E c \in AllComponents :
           \E call \in {"none", "Spawn", "Destroy"} : \E e \in Ents : TickOne(t, c, call, e)
    \/ \E t \in 1..Len(masterTasks) : TaskEnd(t)
    \/ DoTickReturn
    \/ DoPosttick

SpecTick == InitTick /\ [][NextTick]_vars

\* every entity was constructed with its data component and a script and
\* spawned into the first world; the game has registered SystemA and SystemB
InitLive ==
    \E us \in UserSystems :
        /\ HoldsEntities([SpawnEach(
                              Construct(Blank,
                                        SetToSeq(DataComponents
                                                 \cup {c \in TickedComponents : c[1] = "script"})),
                              FirstWorld, SetToSeq(Ents))
                          EXCEPT !.log = << >>])
        /\ systemManager = RegisterSystem(RegisterSystem(WorldSystems, "SystemA", us["SystemA"]),
                                          "SystemB", us["SystemB"])
        /\ physicsActive = FALSE
        /\ frame = "idle"
        /\ masterTasks = << >>
        /\ graphs = NoGraphs
        /\ edges = {}
        /\ now = 0
        /\ timedTick = NoTimed
        /\ inclusions = {}

\* what the executor's worker threads and the thread in World::Tick do once
\* the graph of the frame is built
FrameStep ==
    \/ \E t \in 1..Len(masterTasks) : TaskStart(t)
    \/ \E t \in 1..Len(masterTasks) : \E c \in AllComponents :
           TickOne(t, c, "none", EntityAt(1))
    \/ \E t \in 1..Len(masterTasks) : TaskEnd(t)
    \/ DoTickReturn
    \/ DoPosttick

\* frames of the game's and the engine's systems, with threads that do not
\* stop while they have something to do: every callback returns, the worker
\* threads go on taking the tasks that are ready, and the hooks return
SpecLive == InitLive /\ [][NextAlternate]_vars /\ WF_vars(FrameStep)

(***************************************************************************)
(* Threads: SharedObject::retain / release, and World::Spawn /             *)
(* World::Destroy called from tick callbacks that run at the same time     *)
(***************************************************************************)
Threads == 1..NumThreads

\* no frame is under way and no system of the game is registered
NoFrame ==
    /\ systemManager = WorldSystems
    /\ physicsActive = FALSE
    /\ frame = "idle"
    /\ masterTasks = << >>
    /\ graphs = NoGraphs
    /\ edges = {}
    /\ now = 0
    /\ timedTick = NoTimed
    /\ inclusions = {}
    /\ isRendering = FALSE

\* every thread holds one reference (a Ref) to the one shared object
InitShared ==
    /\ HoldsStores(Blank)
    /\ NoFrame
    /\ NoUtil
    /\ refcount = NumThreads
    /\ deleted = 0
    /\ threads = [t \in Threads |-> [pc |-> "idle", holds |-> 1]]

\* retain and release touch nothing but the counter and the object
OnlyShared ==
    /\ UNCHANGED <<Entities, worldptr, parent, components, componentsRedundant, owner, log,
                   lastHook>>
    /\ UNCHANGED tickvars
    /\ UNCHANGED timevars
    /\ UNCHANGED isRendering
    /\ UNCHANGED utilvars

\* retain(): ++refcount, by a thread that copies a reference it holds
retain(t) ==
    /\ threads[t].pc = "idle"
    /\ threads[t].holds \in 1..(MaxHolds - 1)
    /\ refcount' = refcount + 1
    /\ threads' = [threads EXCEPT ![t].holds = @ + 1]
    /\ UNCHANGED deleted
    /\ OnlyShared

\* release(), first statement: --refcount, by a thread that drops a reference
release_decrement(t) ==
    /\ threads[t].pc = "idle"
    /\ threads[t].holds >= 1
    /\ refcount' = refcount - 1
    /\ threads' = [threads EXCEPT ![t].holds = @ - 1, ![t].pc = "test"]
    /\ UNCHANGED deleted
    /\ OnlyShared

\* release(), the test refcount == 0: a second read of the counter; the read
\* of an object that is deleted already may give anything
release_test(t) ==
    /\ threads[t].pc = "test"
    /\ \E zero \in (IF deleted > 0 THEN {TRUE, FALSE} ELSE {refcount = 0}) :
          threads' = [threads EXCEPT ![t].pc = IF zero THEN "delete" ELSE "idle"]
    /\ UNCHANGED <<refcount, deleted>>
    /\ OnlyShared

\* release(): delete this; return
release_delete(t) ==
    /\ threads[t].pc = "delete"
    /\ deleted' = deleted + 1
    /\ threads' = [threads EXCEPT ![t].pc = "idle"]
    /\ UNCHANGED refcount
    /\ OnlyShared

NextShared ==
    \/ \E t \in Threads : retain(t)
    \/ \E t \in Threads : release_decrement(t)
    \/ \E t \in Threads : release_test(t)
    \/ \E t \in Threads : release_delete(t)

SpecShared == InitShared /\ [][NextShared]_vars

\* World::Spawn past its test of the world back-reference: nothing from there
\* on reads the back-reference before SetWorld has written it
SpawnUnchecked(st, w, e) == Spawn([st EXCEPT !.worldptr[e] = Null], w, e)

\* World::Destroy past its test of the world back-reference
DestroyUnchecked(st, w, e) == Destroy([st EXCEPT !.worldptr[e] = w], w, e)

\* every entity was constructed with its data component; either none of them
\* or all of them were spawned into the first world; every worker thread is
\* about to run a tick callback that makes one call on the world
InitConcurrent ==
    \E spawned \in BOOLEAN :
        /\ HoldsStores(
               IF spawned
               THEN [SpawnEach(Construct(Blank, SetToSeq(DataComponents)),
                               FirstWorld, SetToSeq(Ents))
                     EXCEPT !.log = << >>]
               ELSE Construct(Blank, SetToSeq(DataComponents)))
        /\ NoFrame
        /\ NoUtil
        /\ refcount = 0
        /\ deleted = 0
        /\ threads = [t \in Threads |->
                         [pc |-> "idle", call |-> "", e |-> Null, seen |-> Null, ret |-> FALSE]]

\* the state after a step of a thread inside a call; the log is the history
\* of all the calls
ThreadStep(st) ==
    /\ Entities' = st.Entities
    /\ worldptr' = st.worldptr
    /\ parent' = st.parent
    /\ components' = st.components
    /\ componentsRedundant' = st.componentsRedundant
    /\ owner' = st.owner
    /\ lastHook' = st.lastHook
    /\ log' = st.log
    /\ UNCHANGED <<refcount, deleted>>
    /\ UNCHANGED tickvars
    /\ UNCHANGED timevars
    /\ UNCHANGED isRendering
    /\ UNCHANGED utilvars

\* Spawn(e), the test e->GetWorld().expired(): the call goes on, or returns false
SpawnTest(t, e) ==
    /\ threads[t].pc = "idle"
    /\ threads' = [threads EXCEPT ![t] =
                       [pc |-> IF worldptr[e] = Null THEN "Spawn" ELSE "done",
                        call |-> "Spawn", e |-> e, seen |-> worldptr[e], ret |-> FALSE]]
    /\ ThreadStep(IF worldptr[e] = Null THEN [State EXCEPT !.log = log]
                  ELSE Emit([State EXCEPT !.log = log], "SpawnFalse", FirstWorld, e))

\* Spawn(e), from Entities.insert(e) to return true
SpawnRest(t) ==
    /\ threads[t].pc = "Spawn"
    /\ threads' = [threads EXCEPT ![t].pc = "done", ![t].ret = TRUE]
    /\ ThreadStep(SpawnUnchecked([State EXCEPT !.log = log], FirstWorld, threads[t].e))

\* Destroy(e), the test e->GetWorld().expired(): the call returns false, or goes on
DestroyTest(t, e) ==
    /\ threads[t].pc = "idle"
    /\ threads' = [threads EXCEPT ![t] =
                       [pc |-> IF worldptr[e] = Null THEN "done" ELSE "Destroy",
                        call |-> "Destroy", e |-> e, seen |-> worldptr[e], ret |-> FALSE]]
    /\ ThreadStep(IF worldptr[e] = Null
                  THEN Emit([State EXCEPT !.log = log], "DestroyFalse", FirstWorld, e)
                  ELSE [State EXCEPT !.log = log])

\* Destroy(e), from SetWorld(nullptr) to return true
DestroyRest(t) ==
    /\ threads[t].pc = "Destroy"
    /\ threads' = [threads EXCEPT ![t].pc = "done", ![t].ret = TRUE]
    /\ ThreadStep(DestroyUnchecked([State EXCEPT !.log = log], FirstWorld, threads[t].e))

NextConcurrent ==
    \/ \E t \in Threads : \E e \in Ents : SpawnTest(t, e)
    \/ \E t \in Threads : SpawnRest(t)
    \/ \E t \in Threads : \E e \in Ents : DestroyTest(t, e)
    \/ \E t \in Threads : DestroyRest(t)

SpecConcurrent == InitConcurrent /\ [][NextConcurrent]_vars

(***************************************************************************)
(* InputManager: ProcessAxisID / TickAxes                                  *)
(***************************************************************************)
\* the engine and the threads play no part
NoEngine ==
    /\ HoldsStores(Blank)
    /\ NoFrame
    /\ NoThreads

OnlyUtil ==
    /\ UNCHANGED <<Entities, worldptr, parent, components, componentsRedundant, owner, lastHook>>
    /\ UNCHANGED tickvars
    /\ UNCHANGED timevars
    /\ UNCHANGED threadvars
    /\ UNCHANGED isRendering

Axes == {"MoveForward", "MoveRight"}
\* the callbacks the game may bind to an axis
AxisCallbacks == {"f", "g"}
\* the values of the input events
AxisValues == {1, 2}

\* CodeToAxis: input code -> the axes mapped to it, each with its scale;
\* code 3 is mapped to nothing
CodeToAxis ==
    [ID \in {1, 2} |->
        IF ID = 1 THEN <<[identifier |-> "MoveForward", scale |-> 1]>>
        ELSE <<[identifier |-> "MoveForward", scale |-> -1],
               [identifier |-> "MoveRight", scale |-> 2]>>]
InputCodes == DOMAIN CodeToAxis \cup {3}

\* the loop of ProcessAxisID over CodeToAxis[ID]
RECURSIVE BufferEach(_, _, _)
BufferEach(ab, names, value) ==
    IF names = << >> THEN ab
    ELSE BufferEach(
             [ab EXCEPT ![Head(names).identifier].bufferedInputs =
                            Append(@, [value |-> value * Head(names).scale,
                                       source_controller |-> "C0"])],
             Tail(names), value)

ProcessAxisID(ab, ID, value) ==
    IF ID \in DOMAIN CodeToAxis THEN BufferEach(ab, CodeToAxis[ID], value) ELSE ab

\* TickAxes that adds no 0 for an axis without recorded inputs
TickBindingNoZero(name, binding) ==
    LET inputs == binding.bufferedInputs
    IN  [k \in 1..(Len(binding.bindings) * Len(inputs)) |->
            Event("axis", <<name, binding.bindings[((k - 1) \div Len(inputs)) + 1]>>,
                  inputs[((k - 1) % Len(inputs)) + 1])]

\* the body of the loop of TickAxes for one axis: the calls axis(value,
\* source_controller) it makes, binding by binding, and for each binding in
\* the order of the buffered inputs
TickBinding(name, binding) ==
    LET inputs == IF Len(binding.bufferedInputs) = 0
                  THEN <<[value |-> 0, source_controller |-> "ANY"]>>
                  ELSE binding.bufferedInputs
    IN  [k \in 1..(Len(binding.bindings) * Len(inputs)) |->
            Event("axis", <<name, binding.bindings[((k - 1) \div Len(inputs)) + 1]>>,
                  inputs[((k - 1) % Len(inputs)) + 1])]

\* the calls of TickAxes, the hash map giving the axes in the order names
RECURSIVE TickAxes(_, _)
TickAxes(ab, names) ==
    IF names = << >> THEN << >>
    ELSE TickBinding(Head(names), ab[Head(names)]) \o TickAxes(ab, Tail(names))

\* the game has bound some callbacks to each axis; no input is buffered
InitInput ==
    /\ NoEngine
    /\ \E bs \in [Axes -> SUBSET AxisCallbacks] :
          AxisBindings = [a \in Axes |-> [bindings |-> SetToSeq(bs[a]), bufferedInputs |-> << >>]]
    /\ vec = << >>
    /\ source = << >>

DoProcessAxisID(ID, value) ==
    /\ \A a \in Axes : Len(AxisBindings[a].bufferedInputs) < MaxBuffered
    /\ AxisBindings' = ProcessAxisID(AxisBindings, ID, value)
    /\ log' = <<Event("ProcessAxisID", ID, value)>>
    /\ UNCHANGED <<vec, source>>
    /\ OnlyUtil

\* TickAxes: the calls, bufferedInputs.clear() for every axis, and
\* CleanupBindings, which finds every binding valid
DoTickAxes ==
    /\ \E names \in {s \in [1..Cardinality(Axes) -> Axes] : \A a \in Axes : \E i \in DOMAIN s : s[i] = a} :
          log' = Append(TickAxes(AxisBindings, names), Event("TickAxes", Null, Null))
    /\ AxisBindings' = [a \in Axes |-> [AxisBindings[a] EXCEPT !.bufferedInputs = << >>]]
    /\ UNCHANGED <<vec, source>>
    /\ OnlyUtil

NextInput ==
    \/ \E ID \in InputCodes : \E value \in AxisValues : DoProcessAxisID(ID, value)
    \/ DoTickAxes

SpecInput == InitInput /\ [][NextInput]_vars

(***************************************************************************)
(* unordered_vector                                                        *)
(***************************************************************************)
VecValues == 1..3

\* std::find: the position of the first element equal to value, end() if
\* there is none
Find(data, value) ==
    IF \E i \in 1..Len(data) : data[i] = value
    THEN CHOOSE i \in 1..Len(data) : data[i] = value /\ \A j \in 1..(i - 1) : data[j] # value
    ELSE Len(data) + 1

\* erase(it) for an iterator to an element: the last element is moved over
\* it and popped
EraseAt(data, it) ==
    LET front == SubSeq(data, 1, Len(data) - 1)
    IN  IF it < Len(data) THEN [front EXCEPT ![it] = data[Len(data)]] ELSE front

\* erase(value): the vectors the call can leave.  For a value that is not in
\* the vector std::find gives end(), and erase(it) writes through end() and
\* pops the last element; on an empty vector it pops from an empty vector,
\* which leaves a corrupt one.
erase(v, value) ==
    LET it == Find(v.data, value)
    IN  IF it <= Len(v.data) THEN {[data |-> EraseAt(v.data, it), corrupt |-> FALSE]}
        ELSE IF Len(v.data) = 0 THEN {[data |-> << >>, corrupt |-> TRUE]}
        ELSE {[data |-> SubSeq(v.data, 1, Len(v.data) - 1), corrupt |-> c] : c \in BOOLEAN}

insert(v, value) == [v EXCEPT !.data = Append(@, value)]

InitVector ==
    /\ NoEngine
    /\ AxisBindings = << >>
    /\ source = << >>
    /\ vec = [data |-> << >>, corrupt |-> FALSE]

DoInsert(value) ==
    /\ ~vec.corrupt
    /\ Len(vec.data) < MaxLen
    /\ vec' = insert(vec, value)
    /\ log' = <<Event("insert", value, Null)>>
    /\ UNCHANGED <<AxisBindings, source>>
    /\ OnlyUtil

DoErase(value) ==
    /\ ~vec.corrupt
    /\ vec' \in erase(vec, value)
    /\ log' = <<Event("erase", value, Null)>>
    /\ UNCHANGED <<AxisBindings, source>>
    /\ OnlyUtil

NextVector ==
    \/ \E value \in VecValues : DoInsert(value)
    \/ \E value \in VecValues : DoErase(value)

SpecVector == InitVector /\ [][NextVector]_vars

(***************************************************************************)
(* AudioSourceComponent                                                    *)
(***************************************************************************)
\* asset->audiodata[i] for an index below numsamples: no sample is 0
Sample(i) == i + 1
\* what a read past the end of audiodata can give
Garbage == {0, 1}

\* the loop of GetSampleRegionAndAdvance, n floats to go: the sources the
\* call can leave.  reads holds the indices read from audiodata, buffer the
\* floats written.
RECURSIVE Advance(_, _)
Advance(s, n) ==
    IF n = 0 THEN {s}
    ELSE IF s.playhead_pos >= s.numsamples /\ ~s.loops
         THEN Advance([s EXCEPT !.buffer = Append(@, 0), !.isPlaying = FALSE], n - 1)
         ELSE LET pos == IF s.playhead_pos >= s.numsamples THEN 0 ELSE s.playhead_pos
                  read == IF pos < s.numsamples THEN {Sample(pos)} ELSE Garbage
              IN  UNION {Advance([s EXCEPT !.buffer = Append(@, x),
                                           !.reads = Append(@, pos),
                                           !.playhead_pos = pos + 1], n - 1) : x \in read}

GetSampleRegionAndAdvance(s, count) ==
    Advance([s EXCEPT !.buffer = << >>, !.reads = << >>], count)

\* a source on an asset of any length, as its constructor leaves it
InitAudio ==
    /\ NoEngine
    /\ AxisBindings = << >>
    /\ vec = << >>
    /\ \E n \in 0..MaxSamples :
          source = [playhead_pos |-> 0, loops |-> FALSE, isPlaying |-> FALSE,
                    numsamples |-> n, reads |-> << >>, buffer |-> << >>]

\* what every call of the source leaves alone
AudioCall(call, arg) ==
    /\ log' = <<Event(call, arg, Null)>>
    /\ UNCHANGED <<AxisBindings, vec>>
    /\ OnlyUtil

Play ==
    /\ source' = [source EXCEPT !.isPlaying = TRUE]
    /\ AudioCall("Play", Null)

Pause ==
    /\ source' = [source EXCEPT !.isPlaying = FALSE]
    /\ AudioCall("Pause", Null)

Restart ==
    /\ source' = [source EXCEPT !.playhead_pos = 0]
    /\ AudioCall("Restart", Null)

SetLoop(loop) ==
    /\ source' = [source EXCEPT !.loops = loop]
    /\ AudioCall("SetLoop", loop)

DoGetSampleRegionAndAdvance(count) ==
    /\ source' \in GetSampleRegionAndAdvance(source, count)
    /\ AudioCall("GetSampleRegionAndAdvance", count)

NextAudio ==
    \/ Play
    \/ Pause
    \/ Restart
    \/ \E loop \in BOOLEAN : SetLoop(loop)
    \/ \E count \in 0..MaxCount : DoGetSampleRegionAndAdvance(count)

SpecAudio == InitAudio /\ [][NextAudio]_vars

(***************************************************************************)
(* Reading the log of a call                                               *)
(***************************************************************************)
\* the call that produced log l
Called(l, call, s, arg) == l # << >> /\ l[Len(l)] = Event(call, s, arg)
\* what that call returned (Spawn and Destroy log their result before returning)
Returned(l, ev, s, arg) == Len(l) >= 2 /\ l[Len(l) - 1] = Event(ev, s, arg)
CountEvent(l, ev, a, b) == Cardinality({i \in 1..Len(l) : l[i] = Event(ev, a, b)})
CountOver(l, ev, e) == Cardinality({i \in 1..Len(l) : l[i].ev = ev /\ l[i].b = e})
\* the Start/Stop hooks of entity e in log l, in order
HooksOf(l, e) == SelectSeq(l, LAMBDA x : x.ev \in {"Start", "Stop"} /\ x.a = e)
\* hooks hs continue an alternation whose latest hook was prev
RECURSIVE Alternates(_, _)
Alternates(prev, hs) ==
    IF hs = << >> THEN TRUE
    ELSE /\ Head(hs).ev = (IF prev = "Start" THEN "Stop" ELSE "Start")
         /\ Alternates(Head(hs).ev, Tail(hs))
InStore(m, c) == c \in Bucket(m, TypeOf(c))

(***************************************************************************)
(* Claims                                                                  *)
(***************************************************************************)
\* the tasks of system ID in the frame under way
TasksOf(ID) == {t \in 1..Len(masterTasks) : masterTasks[t].system = ID}
\* both systems are included in the frame and A is declared to run before B
DeclaredBefore(A, B) ==
    /\ TasksOf(A) # {} /\ TasksOf(B) # {}
    /\ B \in systemManager[A].MustRunBefore \/ A \in systemManager[B].MustRunAfter
\* the invocations of the system's Tick that task t has still to make
Outstanding(t) == {c \in masterTasks[t].todo : owner[c] # Null}

\* C1: in a frame that includes A and B, with A declared to run before B, no
\* task of B has invoked B.Tick while a task of A, whichever of A's query types
\* it covers, still has an invocation of A.Tick to make.
C1_DeclaredOrder ==
    frame = "running" =>
        \A A \in DOMAIN systemManager : \A B \in DOMAIN systemManager :
            DeclaredBefore(A, B) =>
                \A ta \in TasksOf(A) : \A tb \in TasksOf(B) :
                    masterTasks[tb].ticked # {} => Outstanding(ta) = {}

\* C2: while the task graph of a frame executes, a Spawn or Destroy called from
\* a Tick callback changes neither Entities nor the contents of the world's
\* component store; the change waits for the next World::Tick.
C2_SpawnDestroyBuffered ==
    [][frame = "running" =>
          /\ Entities'[FirstWorld] = Entities[FirstWorld]
          /\ \A T \in Types :
                /\ Bucket(components'[FirstWorld], T) = Bucket(components[FirstWorld], T)
                /\ Bucket(componentsRedundant'[FirstWorld], T)
                       = Bucket(componentsRedundant[FirstWorld], T)]_vars

Indexed(s, T) == Bucket(components[s], T) \cup Bucket(componentsRedundant[s], T)
\* every component a store holds, under any type
Held(m) == UNION {m[k] : k \in DOMAIN m}

\* C11: on a queried store HasComponentOfType<T>() is true exactly when some
\* component is indexed under T, exactly or as an alternate, and then
\* GetComponent<T>() finds a component.
C11_HasGuardsGet ==
    \A s \in QueryStores : \A T \in QueryTypes :
        /\ HasComponentOfType(State, s, T) <=> Indexed(s, T) # {}
        /\ HasComponentOfType(State, s, T) => GetComponent(State, s, T).ret # {}

\* C12: GetComponent<T>() returns a member of components[T] if that bucket is
\* not empty, else a member of componentsRedundant[T] if that one is not empty,
\* else it throws and returns nothing.
C12_GetComponentResult ==
    \A s \in QueryStores : \A T \in QueryTypes :
        Called(log, "GetComponent", s, T) =>
            LET r == log[Len(log) - 1]
            IN  IF Bucket(components[s], T) # {}
                THEN r.ev = "Found" /\ r.b \in Bucket(components[s], T)
                ELSE IF Bucket(componentsRedundant[s], T) # {}
                THEN r.ev = "Found" /\ r.b \in Bucket(componentsRedundant[s], T)
                ELSE r.ev = "NotFound" /\ r.b = Null

\* C12 witness: GetComponent<PhysicsBodyComponent>() on the world found the
\* rigid body through the alternate index, the exact bucket being empty.
C12_Witness ==
    /\ Called(log, "GetComponent", FirstWorld, "PhysicsBodyComponent")
    /\ log[Len(log) - 1].ev = "Found"
    /\ Bucket(components[FirstWorld], "PhysicsBodyComponent") = {}
    /\ log[Len(log) - 1].b \in Bucket(componentsRedundant[FirstWorld], "PhysicsBodyComponent")

\* C13: with one spawned entity holding a single component, of type T, the
\* world's GetAllComponentsOfSubclass<T>() returns that component if T lists
\* itself among its alternate types and nothing otherwise.
C13_SubclassQuery ==
    \A T \in QueryTypes : \A e \in Ents : \A c \in DataComponents :
        (/\ Called(log, "GetAllComponentsOfSubclass", FirstWorld, T)
         /\ Entities[FirstWorld] = {e}
         /\ Held(components[e]) = {c} /\ TypeOf(c) = T
         /\ Held(components[FirstWorld]) = {c}
         /\ Held(componentsRedundant[FirstWorld]) \subseteq {c})
        => log[Len(log) - 1].b = (IF T \in GetQueryTypes(T) THEN {c} ELSE {})

\* C14: the frame goes pretick, task graph, posttick and back to idle; tasks
\* exist and change only while the graph runs, they are created after pretick
\* has returned, and posttick begins only when every task of the frame is done.
C14_TickPhases ==
    [][/\ frame' # frame =>
              <<frame, frame'>> \in {<<"idle", "pretick">>, <<"pretick", "running">>,
                                    <<"running", "posttick">>, <<"posttick", "idle">>}
       /\ frame' = "posttick" /\ frame = "running" =>
              \A t \in 1..Len(masterTasks) : masterTasks[t].status = "done"
       /\ masterTasks' # masterTasks =>
              (frame = "pretick" /\ masterTasks = << >>) \/ frame = "running"
       /\ frame \in {"idle", "pretick", "posttick"} => masterTasks = << >>]_vars

\* C14 witness: pretick is over, every task of the frame has run to its end
\* with ticks made, and posttick has not begun.
C14_Witness ==
    /\ frame = "running"
    /\ masterTasks # << >>
    /\ \A t \in 1..Len(masterTasks) : masterTasks[t].status = "done"
    /\ \E t \in 1..Len(masterTasks) : masterTasks[t].ticked # {}

\* C15: any two frames that include the same timed system read clock values
\* more than the system's interval apart.
C15_OncePerInterval ==
    \A x \in inclusions : \A y \in inclusions :
        (x[1] = y[1] /\ x[2] < y[2]) => y[2] - x[2] > timedTick[x[1]].interval

\* C15 witness: SystemT, with a positive interval, has been included in two
\* frames.
C15_Witness ==
    /\ timedTick["SystemT"].interval > 0
    /\ Cardinality({x \in inclusions : x[1] = "SystemT"}) >= 2

\* C16: a round of a frame's task over a component whose owner has expired
\* takes the component off the task's list without invoking Tick and without
\* touching anything else; a round over any other component invokes Tick; and
\* a task ends only when every component of its copy has had its round.
C16_StaleOwnerSkipped ==
    [][(frame = "running" /\ frame' = "running") =>
          /\ \A t \in 1..Len(masterTasks) :
                \A c \in masterTasks[t].todo \ masterTasks'[t].todo :
                    /\ masterTasks'[t].todo = masterTasks[t].todo \ {c}
                    /\ masterTasks'[t].status = "running"
                    /\ owner[c] = Null =>
                           /\ masterTasks'[t].ticked = masterTasks[t].ticked
                           /\ UNCHANGED <<Entities, worldptr, parent, components,
                                          componentsRedundant, owner, lastHook>>
                    /\ owner[c] # Null =>
                           masterTasks'[t].ticked = masterTasks[t].ticked \cup {c}
          /\ \A u \in 1..Len(masterTasks) :
                (masterTasks'[u].status = "done" /\ masterTasks[u].status # "done")
                => masterTasks[u].todo = {}]_vars

\* C16 witness: a task is done having passed over a component whose owner had
\* expired and having ticked another one.
C16_Witness ==
    /\ frame = "running"
    /\ \E t \in 1..Len(masterTasks) :
          /\ masterTasks[t].status = "done"
          /\ masterTasks[t].ticked # {}
          /\ \E c \in masterTasks[t].items \ masterTasks[t].ticked : owner[c] = Null

\* where event x stands in log l (0: nowhere)
IndexOf(l, x) == IF \E i \in 1..Len(l) : l[i] = x
                 THEN CHOOSE i \in 1..Len(l) : l[i] = x ELSE 0

\* C20: in the log of a successful Spawn(w, e), e is registered, then Start
\* is entered and returns, then Merge runs, and every OnAddComponent of the
\* world for a component of e lies between the return of Start and the end of
\* Merge; every child of e gets its Spawn after Merge.
C20_SpawnOrder ==
    \A w \in Worlds : \A e \in Ents :
        (Called(log, "Spawn", w, e) /\ Returned(log, "SpawnTrue", w, e)) =>
            LET reg == IndexOf(log, Event("Registered", w, e))
                start == IndexOf(log, Event("Start", e, Null))
                started == IndexOf(log, Event("Started", e, Null))
                merged == IndexOf(log, Event("Merged", w, e))
                children == ChildrenOf(State, e)
            IN  /\ 0 < reg /\ reg < start /\ start < started /\ started < merged
                /\ \A i \in 1..Len(log) :
                      (log[i].ev = "OnAddComponent" /\ HomeOf(log[i].b) = e)
                      => (started < i /\ i < merged)
                /\ \A k \in 1..Len(children) :
                      \E i \in (merged + 1)..Len(log) :
                          log[i] \in {Event("SpawnTrue", w, children[k]),
                                      Event("SpawnFalse", w, children[k])}

\* C20 witness: a successful Spawn(w, e) merged a component of e and then
\* spawned a child of e.
C20_Witness ==
    \E w \in Worlds : \E e \in Ents :
        /\ Called(log, "Spawn", w, e) /\ Returned(log, "SpawnTrue", w, e)
        /\ \E i \in 1..Len(log) : log[i].ev = "OnAddComponent" /\ HomeOf(log[i].b) = e
        /\ \E ch \in Ents \ {e} :
              /\ IndexOf(log, Event("Registered", w, ch))
                     > IndexOf(log, Event("Merged", w, e))
              /\ IndexOf(log, Event("Merged", w, e)) > 0

\* the pairs <<a, b>> with a path of edges from task a to task b
RECURSIVE Paths(_)
Paths(R) ==
    LET R2 == R \cup {<<p[1][1], p[2][2]>> : p \in {q \in R \X R : q[1][2] = q[2][1]}}
    IN  IF R2 = R THEN R ELSE Paths(R2)
\* the edges of the frame's graph form a cycle
HasCycle == \E x \in Paths(edges) : x[1] = x[2]

\* C17: a frame whose ordering constraints form a cycle is ended with an
\* error when its graph is built: no graph with a cycle is ever handed to the
\* executor.
C17_CycleIsFatal == frame = "running" => ~HasCycle

\* C18: in a frame that includes PhysicsLinkSystemRead and ScriptSystem no
\* ScriptSystem task has started before the PhysicsLinkSystemRead task has
\* finished.
C18_ReadBeforeScript ==
    frame = "running" =>
        \A tr \in TasksOf("PhysicsLinkSystemRead") : \A tc \in TasksOf("ScriptSystem") :
            masterTasks[tc].status # "pending" => masterTasks[tr].status = "done"

\* C18 witness: the read task is done, having ticked a rigid body, and the
\* script task has ticked a script.
C18_Witness ==
    /\ frame = "running"
    /\ \E tr \in TasksOf("PhysicsLinkSystemRead") :
          masterTasks[tr].status = "done" /\ masterTasks[tr].ticked # {}
    /\ \E tc \in TasksOf("ScriptSystem") : masterTasks[tc].ticked # {}

\* C19: in a frame with physics active no PhysicsLinkSystemWrite task has
\* started before every ScriptSystem task of the frame has finished.
C19_WriteAfterScript ==
    (frame = "running" /\ physicsActive) =>
        \A tw \in TasksOf("PhysicsLinkSystemWrite") : \A tc \in TasksOf("ScriptSystem") :
            masterTasks[tw].status # "pending" => masterTasks[tc].status = "done"

\* C21: whenever OnAddComponent fires in the course of Entity::AddComponent of
\* component c on entity e, the owner of c resolves to e.
C21_OwnerSetBeforeHook ==
    \A e \in Ents : \A c \in DataComponents :
        Called(log, "AddComponent", e, c) =>
            \A i \in 1..Len(log) :
                (log[i].ev = "getOwner" /\ log[i].a = c) => log[i].b = e

\* C21 witness: Entity::AddComponent on a spawned entity made the world's
\* OnAddComponent fire, and the hook resolved the owner.
C21_Witness ==
    \E e \in Ents : \E c \in DataComponents :
        /\ Called(log, "AddComponent", e, c)
        /\ \E i \in 1..Len(log) : log[i] = Event("OnAddComponent", FirstWorld, c)
        /\ \E i \in 1..Len(log) : log[i] = Event("getOwner", c, e)

\* C22: the InitPhysics that finds physics inactive returns true, registers
\* the two physics link systems and sets physicsActive; one that finds it
\* active returns false and changes nothing; and no step takes physicsActive
\* back to false.
C22_InitPhysicsOnce ==
    [][/\ physicsActive => physicsActive'
       /\ \A r \in BOOLEAN :
             (log' = <<Event("InitPhysics", FirstWorld, r)>> /\ log' # log) =>
                 IF physicsActive
                 THEN /\ r = FALSE
                      /\ UNCHANGED <<Entities, worldptr, parent, components,
                                     componentsRedundant, owner, lastHook>>
                      /\ UNCHANGED tickvars
                      /\ UNCHANGED timevars
                      /\ UNCHANGED threadvars
                      /\ UNCHANGED isRendering
                      /\ UNCHANGED utilvars
                 ELSE /\ r = TRUE
                      /\ physicsActive'
                      /\ {"PhysicsLinkSystemRead", "PhysicsLinkSystemWrite"}
                             \subseteq DOMAIN systemManager']_vars

\* C22 witness: an InitPhysics called with physics active returned false, the
\* physics link systems being registered.
C22_Witness ==
    /\ log = <<Event("InitPhysics", FirstWorld, FALSE)>>
    /\ physicsActive
    /\ "PhysicsLinkSystemRead" \in DOMAIN systemManager

\* component c is indexed in store s under its type and all its alternates
InBoth(cs, rs, c) ==
    /\ c \in Bucket(cs, TypeOf(c))
    /\ \A alt \in GetQueryTypes(TypeOf(c)) : c \in Bucket(rs, alt)
\* component c is indexed nowhere in the store
InNeither(cs, rs, c) == c \notin Held(cs) /\ c \notin Held(rs)

\* C23: a Spawn(e) on world w2 that follows a successful Destroy(e) on another
\* world w1 returns true and leaves the components of e in the store of w2
\* and out of the store of w1; an AddComponent on e that follows a successful
\* Spawn(e) on w2 puts the component into the store of w2 and leaves the store
\* of the other world as it was.
C23_RespawnElsewhere ==
    [][\A w1 \in Worlds : \A w2 \in Worlds \ {w1} : \A e \in Ents :
          /\ (/\ Called(log, "Destroy", w1, e) /\ Returned(log, "DestroyTrue", w1, e)
              /\ Called(log', "Spawn", w2, e))
             => /\ Returned(log', "SpawnTrue", w2, e)
                /\ \A c \in Held(components'[e]) :
                      /\ InBoth(components'[w2], componentsRedundant'[w2], c)
                      /\ InNeither(components'[w1], componentsRedundant'[w1], c)
          /\ \A c \in DataComponents :
                (/\ Called(log, "Spawn", w2, e) /\ Returned(log, "SpawnTrue", w2, e)
                 /\ Called(log', "AddComponent", e, c))
                => /\ InBoth(components'[w2], componentsRedundant'[w2], c)
                   /\ components'[w1] = components[w1]
                   /\ componentsRedundant'[w1] = componentsRedundant[w1]]_vars

\* C23 witness: an entity holding a component was spawned into the second
\* world; the first world, where it was before, has the bucket but not the
\* component.
C23_Witness ==
    \E e \in Ents : \E c \in DataComponents :
        /\ Called(log, "Spawn", SecondWorld, e) /\ Returned(log, "SpawnTrue", SecondWorld, e)
        /\ c \in Held(components[e])
        /\ lastHook[e] = "Start"
        /\ TypeOf(c) \in DOMAIN components[FirstWorld]
        /\ InNeither(components[FirstWorld], componentsRedundant[FirstWorld], c)
        /\ InBoth(components[SecondWorld], componentsRedundant[SecondWorld], c)

\* C24: a Spawn or Destroy that returns false leaves Entities, the stores,
\* the world back-references and the owners as they were and invokes no hook:
\* its log holds nothing but its result.
C24_RejectedChangesNothing ==
    [][\A w \in Worlds : \A e \in Ents :
          ((Called(log', "Spawn", w, e) /\ Returned(log', "SpawnFalse", w, e))
           \/ (Called(log', "Destroy", w, e) /\ Returned(log', "DestroyFalse", w, e)))
          => /\ UNCHANGED <<Entities, worldptr, parent, components, componentsRedundant,
                            owner, lastHook>>
             /\ Len(log') = 2]_vars

\* C24 witness: a Destroy was rejected for an entity that had been spawned
\* and destroyed before, in a world that holds other components.
C24_Witness ==
    \E w \in Worlds : \E e \in Ents :
        /\ Called(log, "Destroy", w, e) /\ Returned(log, "DestroyFalse", w, e)
        /\ lastHook[e] = "Stop"
        /\ Held(components[w]) # {}

\* C25: a Merge of an entity's store into the world's store that comes right
\* after a Merge of the same store, or that finds all the entity's components
\* in the world's store already (they got there when they were added),
\* leaves every bucket of the world's store with the content it had.
C25_RemergeIdempotent ==
    [][\A e \in Ents :
          (/\ Called(log', "Merge", FirstWorld, e)
           /\ \/ Called(log, "Merge", FirstWorld, e)
              \/ \A c \in Held(components[e]) :
                     InBoth(components[FirstWorld], componentsRedundant[FirstWorld], c))
          => \A T \in Types :
                /\ Bucket(components'[FirstWorld], T) = Bucket(components[FirstWorld], T)
                /\ Bucket(componentsRedundant'[FirstWorld], T)
                       = Bucket(componentsRedundant[FirstWorld], T)]_vars

\* C25 witness: the store of a spawned entity, whose component reached the
\* world when it was added, has been merged into the world's store.
C25_Witness ==
    \E e \in Ents : \E c \in DataComponents :
        /\ Called(log, "Merge", FirstWorld, e)
        /\ parent[e] = FirstWorld
        /\ c \in Held(components[e])
        /\ InBoth(components[FirstWorld], componentsRedundant[FirstWorld], c)
        /\ \E i \in 1..Len(log) : log[i] = Event("OnAddComponent", FirstWorld, c)

C27_AlternateTicked ==
    frame = "running" =>
        \A t \in 1..Len(masterTasks) :
            (masterTasks[t].system # "RunPhysics" /\ masterTasks[t].status = "done") =>
                \A c \in Bucket(componentsRedundant[FirstWorld], masterTasks[t].query) :
                    owner[c] \in Entities[FirstWorld] =>
                        \E c2 \in masterTasks[t].ticked : owner[c2] = owner[c]

\* C28: IsInWorld() of an entity is true exactly while the entity is spawned,
\* that is listed in the Entities of a world.
C28_IsInWorldIffSpawned ==
    \A e \in Ents : IsInWorld(State, e) <=> (\E w \in Worlds : e \in Entities[w])

\* C29: the shared object is deleted at most once, and only once its counter
\* has reached 0 with no reference left.
C29_DeletedOnce ==
    /\ deleted <= 1
    /\ deleted = 1 => refcount = 0

\* C30: when every thread has called Spawn(e) on the same entity e and the
\* first of them found e unspawned, exactly one call has returned true, e was
\* started once and its components were merged once; likewise for Destroy(e)
\* on a spawned entity, with one call returning true and one Stop.
C30_ConcurrentCallsOnce ==
    \A e \in Ents :
        /\ (/\ \A t \in Threads :
                  threads[t].pc = "done" /\ threads[t].call = "Spawn" /\ threads[t].e = e
            /\ \E t \in Threads : threads[t].seen = Null)
           => /\ Cardinality({t \in Threads : threads[t].ret}) = 1
              /\ CountEvent(log, "Start", e, Null) = 1
              /\ CountEvent(log, "Merged", FirstWorld, e) = 1
        /\ (/\ \A t \in Threads :
                  threads[t].pc = "done" /\ threads[t].call = "Destroy" /\ threads[t].e = e
            /\ \E t \in Threads : threads[t].seen # Null)
           => /\ Cardinality({t \in Threads : threads[t].ret}) = 1
              /\ CountEvent(log, "Stop", e, Null) = 1

\* C31: the components a task visits are those of the bucket as it was when
\* the graph was built: no step of the running frame, whatever its callback
\* does to the stores, changes a task's snapshot or takes a component out of
\* the visits still due other than the one it visits, and the frame ends only
\* when every component of every snapshot has been visited.
C31_SnapshotFixed ==
    [][/\ (frame = "pretick" /\ frame' = "running") =>
            \A t \in 1..Len(masterTasks') :
                masterTasks'[t].system # "RunPhysics" =>
                    masterTasks'[t].items = Bucket(components[FirstWorld], masterTasks'[t].query)
       /\ (frame = "running" /\ frame' = "running") =>
            /\ \A t \in 1..Len(masterTasks) :
                  /\ masterTasks'[t].items = masterTasks[t].items
                  /\ masterTasks'[t].todo \subseteq masterTasks[t].todo
            /\ Cardinality(UNION {{<<t, c>> : c \in masterTasks[t].todo \ masterTasks'[t].todo} :
                                     t \in 1..Len(masterTasks)}) <= 1
       /\ (frame = "running" /\ frame' = "posttick") =>
            \A t \in 1..Len(masterTasks) : masterTasks[t].todo = {}]_vars

\* C31 witness: the Tick of SystemB has destroyed entity 2 while the frame
\* runs, which took its Foo out of the world's bucket; the Foo task of SystemA,
\* built before, still has that component to visit.
C31_Witness ==
    /\ frame = "running"
    /\ \E t \in TasksOf("SystemB") : \E u \in TasksOf("SystemA") :
          /\ masterTasks[t].status = "done"
          /\ <<"data", 2>> \in masterTasks[t].ticked
          /\ masterTasks[u].query = "Foo"
          /\ <<"data", 2>> \in masterTasks[u].todo
          /\ <<"data", 2>> \in masterTasks[u].items
          /\ <<"data", 2>> \notin Bucket(components[FirstWorld], "Foo")
          /\ EntityAt(2) \notin Entities[FirstWorld]

\* C32: a frame whose graph has no cycle gets every one of its tasks done and
\* World::Tick returns; and no task ever goes back to a state it has left.
C32_TickTerminates ==
    /\ (frame = "running" /\ ~HasCycle) ~> (frame = "idle")
    /\ [][(frame = "running" /\ frame' = "running") =>
             \A t \in 1..Len(masterTasks) :
                /\ masterTasks[t].status = "running" => masterTasks'[t].status # "pending"
                /\ masterTasks[t].status = "done" => masterTasks'[t].status = "done"]_vars
    /\ [][(frame = "running" /\ frame' # "running") =>
             \A t \in 1..Len(masterTasks) : masterTasks[t].status = "done"]_vars

\* C32 witness: with physics active the graph has edges and no cycle, and
\* every task of the frame, the solver among them, is done.
C32_Witness ==
    /\ frame = "running"
    /\ physicsActive
    /\ edges # {}
    /\ ~HasCycle
    /\ Len(masterTasks) >= 5
    /\ \A t \in 1..Len(masterTasks) : masterTasks[t].status = "done"

\* the entry of system ID, always-tick or timed
EntryOf(ID) == IF ID \in DOMAIN systemManager THEN systemManager[ID] ELSE timedTick[ID].system

\* C33: the edges of a frame's graph join tasks of that frame only: a declared
\* constraint gives an edge when both its systems are in the frame, and no
\* edge comes from anything else; a system whose constraint names a system
\* that is not in the frame still has its task, and the frame returns only
\* when that task is done.
C33_SkippedConstraint ==
    [][/\ (frame = "pretick" /\ frame' = "running") =>
            LET included == DOMAIN graphs'
                declared == {<<ID, id>> \in included \X included :
                                \/ id \in EntryOf(ID).MustRunBefore
                                \/ ID \in EntryOf(id).MustRunAfter}
            IN  /\ DOMAIN systemManager \subseteq included
                /\ \A ID \in DOMAIN timedTick : ID \in included <=> IsDue(timedTick[ID], now)
                /\ \A ed \in edges' : ed[1] \in 1..Len(masterTasks') /\ ed[2] \in 1..Len(masterTasks')
                /\ edges' = {<<graphs'[d[1]], graphs'[d[2]]>> : d \in declared}
                /\ \A ID \in included :
                      masterTasks'[graphs'[ID]].system = ID
       /\ (frame = "running" /\ frame' = "posttick") =>
            \A ID \in DOMAIN graphs : masterTasks[graphs[ID]].status = "done"]_vars

\* C33 witness: SystemT was in an earlier frame and is not in this one; the
\* task of SystemA, which declares that it runs before SystemT, has run with
\* no edge in the graph.
C33_Witness ==
    /\ frame = "running"
    /\ inclusions # {}
    /\ "SystemT" \notin DOMAIN graphs
    /\ "SystemA" \in DOMAIN graphs
    /\ edges = {}
    /\ masterTasks[graphs["SystemA"]].status = "done"
    /\ masterTasks[graphs["SystemA"]].ticked # {}

\* C34: the step that builds the graph sets last_timestamp of every timed
\* system it includes to now, its tasks not having started, and leaves the
\* entries of the other timed systems as they were; no other step of a frame
\* writes a timed system's entry.
C34_StampedOnInclusion ==
    [][IF frame = "pretick" /\ frame' = "running"
       THEN \A ID \in DOMAIN timedTick :
               IF ID \in DOMAIN graphs'
               THEN /\ timedTick'[ID].last_timestamp = now
                    /\ timedTick'[ID].interval = timedTick[ID].interval
                    /\ \A t \in 1..Len(masterTasks') :
                          masterTasks'[t].system = ID =>
                              masterTasks'[t].status = "pending" /\ masterTasks'[t].ticked = {}
               ELSE timedTick'[ID] = timedTick[ID]
       ELSE timedTick' = timedTick]_vars

\* C34 witness: SystemT is in the frame with a component to tick, its task has
\* not started, and its last_timestamp is the now of this frame, later than
\* the one it was registered with.
C34_Witness ==
    /\ frame = "running"
    /\ "SystemT" \in DOMAIN graphs
    /\ masterTasks[graphs["SystemT"]].status = "pending"
    /\ masterTasks[graphs["SystemT"]].items # {}
    /\ timedTick["SystemT"].last_timestamp = now
    /\ now > MaxInterval

\* the collector tasks: the lambdas that write the current frame data
Collectors == Copies \cup {"sort"}

\* C35: in a frame ticked while rendering each render task is there once; no
\* collector task has started unless the task that clears the frame data and
\* every ScriptSystem task are done; and the task that swaps the frame data
\* has not started unless every collector task is done.
C35_RenderOrder ==
    (frame = "running" /\ isRendering) =>
        /\ \A i \in 1..Len(RenderTaskNames) : Cardinality(TasksOf(RenderTaskNames[i])) = 1
        /\ \A c \in Collectors : \A t \in TasksOf(c) :
              masterTasks[t].status # "pending" =>
                  /\ \A u \in TasksOf("setup") : masterTasks[u].status = "done"
                  /\ \A u \in TasksOf("ScriptSystem") : masterTasks[u].status = "done"
        /\ \A t \in TasksOf("swap") :
              masterTasks[t].status # "pending" =>
                  \A c \in Collectors : \A u \in TasksOf(c) : masterTasks[u].status = "done"

\* C35 witness: in a frame ticked while rendering, with physics active, the
\* scripts have been ticked and SwapFrameData has run.
C35_Witness ==
    /\ frame = "running"
    /\ isRendering
    /\ physicsActive
    /\ \E t \in TasksOf("ScriptSystem") : masterTasks[t].ticked # {}
    /\ \E t \in TasksOf("swap") : masterTasks[t].status = "done"

\* C36: with the systems of the engine only, the graph of every frame has no
\* cycle, every entry of graphs is the task of a registered system, and every
\* edge joins two tasks of the frame.
C36_BuiltinGraphAcyclic ==
    frame = "running" =>
        /\ ~HasCycle
        /\ DOMAIN graphs \subseteq DOMAIN systemManager
        /\ \A ID \in DOMAIN graphs :
              /\ graphs[ID] \in 1..Len(masterTasks)
              /\ masterTasks[graphs[ID]].system = ID
        /\ \A ed \in edges : ed[1] \in 1..Len(masterTasks) /\ ed[2] \in 1..Len(masterTasks)

\* C36 witness: a frame ticked while rendering with physics active: the graph
\* has the physics edges, the edge of PhysicsLinkSystemRead before
\* ScriptSystem and the render edges.
C36_Witness ==
    /\ frame = "running"
    /\ isRendering
    /\ physicsActive
    /\ <<graphs["PhysicsLinkSystemRead"], graphs["ScriptSystem"]>> \in edges
    /\ \E t \in TasksOf("RunPhysics") : <<t, graphs["PhysicsLinkSystemRead"]>> \in edges
    /\ \E t \in TasksOf("setup") : \E u \in TasksOf("camproc") : <<t, u>> \in edges
    /\ \A t \in 1..Len(masterTasks) : masterTasks[t].status = "done"

\* the values and controllers callback cb of axis a was called with, in order
CallsOf(l, a, cb) ==
    LET calls == SelectSeq(l, LAMBDA x : x.ev = "axis" /\ x.a = <<a, cb>>)
    IN  [k \in 1..Len(calls) |-> calls[k].b]

\* C37: a TickAxes calls every binding of every axis with the buffered inputs
\* of the axis, in the order they came in, or once with 0 if there is none,
\* and leaves no buffered input behind.
C37_TickAxesCallsAll ==
    [][Called(log', "TickAxes", Null, Null) =>
          \A a \in Axes :
             /\ AxisBindings'[a].bufferedInputs = << >>
             /\ AxisBindings'[a].bindings = AxisBindings[a].bindings
             /\ \A i \in 1..Len(AxisBindings[a].bindings) :
                   LET calls == CallsOf(log', a, AxisBindings[a].bindings[i])
                   IN  /\ Len(calls) >= 1
                       /\ calls = IF AxisBindings[a].bufferedInputs = << >>
                                  THEN <<[value |-> 0, source_controller |-> "ANY"]>>
                                  ELSE AxisBindings[a].bufferedInputs
             /\ \A cb \in AxisCallbacks :
                   (\A i \in 1..Len(AxisBindings[a].bindings) : AxisBindings[a].bindings[i] # cb)
                       => CallsOf(log', a, cb) = << >>]_vars

\* C37 witness: a TickAxes has called a binding of MoveForward with two
\* different buffered values, in the order they came in, and a binding of
\* MoveRight, which had nothing buffered, with 0.
C37_Witness ==
    /\ Called(log, "TickAxes", Null, Null)
    /\ \E cb \in AxisCallbacks :
          /\ Len(CallsOf(log, "MoveForward", cb)) = 2
          /\ CallsOf(log, "MoveForward", cb)[1].value = 2
          /\ CallsOf(log, "MoveForward", cb)[2].value = 1
    /\ \E cb \in AxisCallbacks :
          CallsOf(log, "MoveRight", cb) = <<[value |-> 0, source_controller |-> "ANY"]>>
    /\ \A a \in Axes : AxisBindings[a].bufferedInputs = << >>

\* how often value occurs in the sequence
Occurrences(data, value) == Cardinality({i \in 1..Len(data) : data[i] = value})

\* C38: erase(value) removes exactly one occurrence of a value that is in the
\* vector and leaves as many of every other value as there were; it leaves
\* the vector as it was when the value is not in it.
C38_EraseExactlyOne ==
    [][\A value \in VecValues :
          Called(log', "erase", value, Null) =>
             IF Occurrences(vec.data, value) > 0
             THEN /\ ~vec'.corrupt
                  /\ Occurrences(vec'.data, value) = Occurrences(vec.data, value) - 1
                  /\ \A other \in VecValues \ {value} :
                        Occurrences(vec'.data, other) = Occurrences(vec.data, other)
             ELSE vec' = vec]_vars

\* C39: the playhead never exceeds the asset's sample count and every read of
\* the asset's data is at an index below the sample count; a source that does
\* not loop writes 0 for every sample asked past the end and stops playing.
C39_PlayheadInBounds ==
    [][/\ source'.playhead_pos <= source'.numsamples
       /\ \A i \in 1..Len(source'.reads) : source'.reads[i] < source'.numsamples
       /\ \A count \in 0..MaxCount :
             (Called(log', "GetSampleRegionAndAdvance", count, Null) /\ ~source.loops) =>
                LET left == IF source.playhead_pos >= source.numsamples THEN 0
                            ELSE source.numsamples - source.playhead_pos
                IN  /\ \A i \in 1..count : i > left => source'.buffer[i] = 0
                    /\ count > left => ~source'.isPlaying]_vars

\* C4: the world's store holds, for every type, exactly the components of the
\* entities currently in Entities, in components and in componentsRedundant.
C4_WorldStoreIsUnion ==
    \A w \in Worlds : \A c \in Components :
        /\ InStore(components[w], c) <=>
               \E e \in Entities[w] : InStore(components[e], c)
        /\ \A a \in GetQueryTypes(TypeOf(c)) :
               c \in Bucket(componentsRedundant[w], a) <=>
                   \E e \in Entities[w] : c \in Bucket(componentsRedundant[e], a)

\* C5: in every store a component is indexed under each of its alternate types
\* exactly when it is indexed under its concrete type.
C5_StoreSymmetry ==
    \A s \in Stores : \A c \in Components :
        \A a \in GetQueryTypes(TypeOf(c)) :
            InStore(components[s], c) <=> c \in Bucket(componentsRedundant[s], a)

\* C5 witness: a component with two alternate types was taken out of the world
\* store, which keeps both alternate buckets, while its entity still holds it.
C5_Witness ==
    \E c \in DataComponents :
        /\ Cardinality(GetQueryTypes(TypeOf(c))) = 2
        /\ \/ Called(log, "RemoveComponent", FirstWorld, c)
           \/ Called(log, "Unmerge", FirstWorld, HomeOf(c))
        /\ GetQueryTypes(TypeOf(c)) \subseteq DOMAIN componentsRedundant[FirstWorld]
        /\ ~InStore(components[FirstWorld], c)
        /\ InStore(components[HomeOf(c)], c)
        /\ CountEvent(log, "OnRemoveComponent", FirstWorld, c) = 1

\* C6: an entity is listed in a world's Entities exactly when its world
\* back-reference points at that world.
C6_EntitiesIffWorldptr ==
    \A w \in Worlds : \A e \in Ents : e \in Entities[w] <=> worldptr[e] = w

\* C7: Spawn on an unspawned entity returns true and the same Spawn repeated
\* right after returns false; Destroy on a spawned entity returns true and the
\* same Destroy repeated right after returns false.
C7_SpawnIdempotence ==
    [][\A w \in Worlds : \A e \in Ents :
          /\ Called(log', "Spawn", w, e) =>
                /\ worldptr[e] = Null => Returned(log', "SpawnTrue", w, e)
                /\ (Called(log, "Spawn", w, e) /\ Returned(log, "SpawnTrue", w, e))
                       => Returned(log', "SpawnFalse", w, e)
          /\ Called(log', "Destroy", w, e) =>
                /\ worldptr[e] # Null => Returned(log', "DestroyTrue", w, e)
                /\ (Called(log, "Destroy", w, e) /\ Returned(log, "DestroyTrue", w, e))
                       => Returned(log', "DestroyFalse", w, e)]_vars

\* C7 witness: a Spawn was rejected for an entity that is listed in the world
\* and started.
C7_Witness ==
    \E w \in Worlds : \E e \in Ents :
        /\ Called(log, "Spawn", w, e)
        /\ Returned(log, "SpawnFalse", w, e)
        /\ e \in Entities[w]
        /\ lastHook[e] = "Start"
        /\ Len(log) = 2

\* C8: in every call, a world's OnAddComponent(c) fires once if c enters the
\* world's store and not at all otherwise, and its OnRemoveComponent(c) fires
\* once if c leaves the store and not at all otherwise.
C8_HooksOncePerTransition ==
    [][\A w \in Worlds : \A c \in Components :
          /\ CountEvent(log', "OnAddComponent", w, c) =
                 (IF ~InStore(components[w], c) /\ InStore(components'[w], c) THEN 1 ELSE 0)
          /\ CountEvent(log', "OnRemoveComponent", w, c) =
                 (IF InStore(components[w], c) /\ ~InStore(components'[w], c) THEN 1 ELSE 0)]_vars

\* C9: in every call, Start() runs once per Spawn of e that returns true and
\* Stop() once per Destroy of e that returns true, nested calls included, and
\* the hooks of e alternate from call to call, Start first.
C9_StartStopAlternate ==
    [][\A e \in Ents :
          /\ CountEvent(log', "Start", e, Null) = CountOver(log', "SpawnTrue", e)
          /\ CountEvent(log', "Stop", e, Null) = CountOver(log', "DestroyTrue", e)
          /\ Alternates(lastHook[e], HooksOf(log', e))]_vars

\* C9 witness: one Spawn started two entities, the second through Start() or a
\* child link, and a nested Spawn closing the cycle was rejected.
C9_Witness ==
    \E e1 \in Ents : \E e2 \in Ents \ {e1} : \E w \in Worlds :
        /\ Called(log, "Spawn", w, e1)
        /\ CountEvent(log, "Start", e1, Null) = 1
        /\ CountEvent(log, "Start", e2, Null) = 1
        /\ CountEvent(log, "SpawnFalse", w, e1) >= 1
        /\ lastHook[e1] = "Start" /\ lastHook[e2] = "Start"

\* C10: from any state, Merge of an entity's store into the world store followed
\* by Unmerge of the same store leaves every bucket of components and of
\* componentsRedundant, and every answer of HasComponentOfType, as before.
C10_MergeUnmergeInverse ==
    \A e \in Ents :
        LET after == Unmerge(Merge(State, FirstWorld, e), FirstWorld, e)
        IN  \A T \in Types :
                /\ Bucket(after.components[FirstWorld], T) = Bucket(components[FirstWorld], T)
                /\ Bucket(after.componentsRedundant[FirstWorld], T) =
                       Bucket(componentsRedundant[FirstWorld], T)
                /\ HasComponentOfType(after, FirstWorld, T) =
                       HasComponentOfType(State, FirstWorld, T)

=============================================================================
